---- MODULE Spec2Model ----
(***************************************************************************)
(* Model of the sweep drivers of the Au nanodisk array notebooks:          *)
(*   "S4"   - S4 spectra notebook      (rta mapped over v_wl)              *)
(*   "EMU"  - EMUstack spectra notebook (simulate_stack over light_list)   *)
(*   "COMB" - EMUstack wavelength+angle sweep writing a text table         *)
(* Each driver maps its evaluator over the sweep points with a             *)
(* concurrent.futures.ProcessPoolExecutor, reduces the results and writes  *)
(* them to a file; the spectra drivers attach their configuration          *)
(* dictionaries to the file as text, which the exploration notebook        *)
(* parses back with ast.literal_eval.                                      *)
(***************************************************************************)
EXTENDS Integers, Sequences, FiniteSets, TLC

\* ------------------------------------------------------------------ bounds
MaxNwl == 3
MaxNtheta == 2
MaxWorkers == 2
MaxVal == 1
MaxLen == 2
\* bits of the significand of the floating-point numbers of the rta arithmetic
Precision == 3
\* half seconds of wall-clock time, and executions of a notebook, followed
MaxClock == 3
MaxRuns == 2
\* layers of a stack handed to rta_spectra
MaxLayers == 4
\* grid points per axis asked of lf, besides its default
MaxPoints == 2

\* ------------------------------------------------------- program constants
wl_min == 400
wl_max == 800
theta_min == 0
theta_max == 10
n_layers == 3

VARIABLES
  driver,       \* which notebook runs
  light,        \* the illumination dictionary
  struct,       \* the geometry / material dictionary
  opts,         \* the solver option dictionary (s4 or emu)
  mats,         \* the EMUstack materials dictionary
  max_workers,  \* worker processes of ProcessPoolExecutor()
  sol,          \* what the EMUstack solver yields for the circular polarizations
  pc,           \* position of the driver (notebook cell / statement)
  i_theta,      \* index of the angle the combined sweep is at
  pools,        \* number of live executors
  fut,          \* state of the future of each submitted sweep point
  busy,         \* the sweep point each worker process is evaluating (0: idle)
  S,            \* S4 simulation handle of each process (0: the driver)
  res,          \* result held by each future
  collected,    \* list being built by list(executor.map(...))
  stacks_list,  \* the driver's variable receiving the batch
  arrays,       \* v_R, v_T, v_A of the spectra drivers
  f,            \* text table of the combined sweep
  nc,           \* netCDF files written
  evaluated,    \* sweep samples whose evaluation has returned
  order,        \* points of the batch in the order their evaluations ended
  ran,          \* points each worker process has taken, in order
  at_start,     \* light, struct and solver options as they were when the pool was created
  call,         \* the arguments the latest call of lf was given
  disk,         \* the files of the working directory, by path
  clock,        \* wall-clock time, in half seconds since the session began
  run,          \* how many times the notebook has been run (Run All)
  parsed        \* what the exploration notebook parsed from the attributes

cfg == << driver, light, struct, opts, mats, max_workers, sol >>
vars == << driver, light, struct, opts, mats, max_workers, sol, pc, i_theta,
           pools, fut, busy, S, res, collected, stacks_list, arrays, f, nc,
           evaluated, order, ran, at_start, call, disk, clock, run, parsed >>
env == << disk, clock, run >>
time == << clock, run >>
hist == << order, ran, at_start, call >>

None == [none |-> TRUE]
\* a variable of the notebook that has not been assigned
Unset == << >>

\* ------------------------------------------------------------ Python values
\* floats are kept in hundredths; inf and nan are floats too
PyFloat(c) == [t |-> "float", c |-> c]
PyInf(neg) == [t |-> "float", inf |-> neg]
PyNaN      == [t |-> "float", nan |-> TRUE]
PyInt(n)   == [t |-> "int", n |-> n]
PyBool(b)  == [t |-> "bool", b |-> b]
PyStr(s)   == [t |-> "str", s |-> s]
PyList(l)  == [t |-> "list", items |-> l]
\* an instance of a class without a literal form (materials.Material)
PyObj(cls) == [t |-> "obj", cls |-> cls]
\* a dict: its (key, value) pairs in insertion order
PyDict(kv) == [t |-> "dict", items |-> kv]

Get(d, key) ==
  LET i == CHOOSE i \in 1..Len(d.items) : d.items[i][1] = key IN d.items[i][2]

\* d.get(key): the value, or None when the key is absent
Lookup(d, key) ==
  IF \E i \in 1..Len(d.items) : d.items[i][1] = key THEN Get(d, key) ELSE None

\* a complex number, parts in hundredths
PyComplex(re, im) == [t |-> "complex", re |-> re, im |-> im]

\* ----------------------------------------------------------- str(), repr()
Op(c)   == [tok |-> "op", c |-> c]
Name(id) == [tok |-> "name", id |-> id]
Num(kind, ip, fp) == [tok |-> "num", kind |-> kind, ip |-> ip, fp |-> fp]
StrTok(s) == [tok |-> "str", s |-> s]

Abs(x) == IF x < 0 THEN -x ELSE x

RECURSIVE py_repr(_)
RECURSIVE repr_items(_, _)
\* the elements of a list or the key: value pairs of a dict, comma separated
repr_items(items, isdict) ==
  IF items = << >> THEN << >>
  ELSE LET h == Head(items)
           one == IF isdict THEN << StrTok(h[1]), Op(":") >> \o py_repr(h[2])
                  ELSE py_repr(h)
       IN IF Len(items) = 1 THEN one
          ELSE one \o << Op(",") >> \o repr_items(Tail(items), isdict)

\* repr(v) as the token sequence of the text it produces
py_repr(v) ==
  IF v.t = "float" THEN
    IF "nan" \in DOMAIN v THEN << Name("nan") >>
    ELSE IF "inf" \in DOMAIN v
      THEN (IF v.inf THEN << Op("-") >> ELSE << >>) \o << Name("inf") >>
    ELSE (IF v.c < 0 THEN << Op("-") >> ELSE << >>)
         \o << Num("float", Abs(v.c) \div 100, Abs(v.c) % 100) >>
  ELSE IF v.t = "int" THEN
    (IF v.n < 0 THEN << Op("-") >> ELSE << >>) \o << Num("int", Abs(v.n), 0) >>
  ELSE IF v.t = "bool" THEN << Name(IF v.b THEN "True" ELSE "False") >>
  ELSE IF v.t = "str" THEN << StrTok(v.s) >>
  ELSE IF v.t = "list" THEN << Op("[") >> \o repr_items(v.items, FALSE) \o << Op("]") >>
  ELSE IF v.t = "dict" THEN << Op("{") >> \o repr_items(v.items, TRUE) \o << Op("}") >>
  ELSE << Op("<"), Name(v.cls), Name("object"), Name("at"), Num("int", 0, 0), Op(">") >>

\* variant: the dictionary is written with json.dumps, booleans as true / false
json_dumps(d) ==
  [i \in DOMAIN py_repr(d) |->
     IF py_repr(d)[i] = Name("True") THEN Name("true")
     ELSE IF py_repr(d)[i] = Name("False") THEN Name("false")
     ELSE py_repr(d)[i]]

\* str(d) of a dict is its repr
py_str(d) == py_repr(d)

\* ------------------------------------------------------- ast.literal_eval
Bad == [ok |-> FALSE]
Good(val, rest) == [ok |-> TRUE, val |-> val, rest |-> rest]
IsOp(toks, c) == toks # << >> /\ Head(toks) = Op(c)

RECURSIVE parse_value(_)
RECURSIVE parse_list(_, _)
RECURSIVE parse_dict(_, _)

\* after '[' : elements separated by commas up to ']'
parse_list(toks, acc) ==
  IF IsOp(toks, "]") THEN Good(PyList(acc), Tail(toks))
  ELSE LET v == parse_value(toks) IN
       IF ~v.ok THEN Bad
       ELSE IF IsOp(v.rest, ",") THEN parse_list(Tail(v.rest), Append(acc, v.val))
       ELSE IF IsOp(v.rest, "]") THEN Good(PyList(Append(acc, v.val)), Tail(v.rest))
       ELSE Bad

\* after '{' : key ':' value pairs separated by commas up to '}'
parse_dict(toks, acc) ==
  IF IsOp(toks, "}") THEN Good(PyDict(acc), Tail(toks))
  ELSE IF toks = << >> \/ Head(toks).tok # "str" \/ ~IsOp(Tail(toks), ":") THEN Bad
  ELSE LET v == parse_value(Tail(Tail(toks)))
           kv == << Head(toks).s, v.val >>
       IN IF ~v.ok THEN Bad
          ELSE IF IsOp(v.rest, ",") THEN parse_dict(Tail(v.rest), Append(acc, kv))
          ELSE IF IsOp(v.rest, "}") THEN Good(PyDict(Append(acc, kv)), Tail(v.rest))
          ELSE Bad

\* a number token as the value it denotes
num_value(tk, neg) ==
  IF tk.kind = "int" THEN PyInt(IF neg THEN -tk.ip ELSE tk.ip)
  ELSE PyFloat((IF neg THEN -1 ELSE 1) * (tk.ip * 100 + tk.fp))

\* one literal: a constant, a signed number, a list or a dict; a name other
\* than True / False is no literal (ValueError), anything else no expression
parse_value(toks) ==
  IF toks = << >> THEN Bad
  ELSE LET h == Head(toks) IN
    IF h.tok = "num" THEN Good(num_value(h, FALSE), Tail(toks))
    ELSE IF h.tok = "str" THEN Good(PyStr(h.s), Tail(toks))
    ELSE IF h.tok = "name" THEN
      (IF h.id \in {"True", "False"} THEN Good(PyBool(h.id = "True"), Tail(toks)) ELSE Bad)
    ELSE IF h = Op("-") THEN
      (IF Tail(toks) # << >> /\ Head(Tail(toks)).tok = "num"
       THEN Good(num_value(Head(Tail(toks)), TRUE), Tail(Tail(toks))) ELSE Bad)
    ELSE IF h = Op("[") THEN parse_list(Tail(toks), << >>)
    ELSE IF h = Op("{") THEN parse_dict(Tail(toks), << >>)
    ELSE Bad

\* ast.literal_eval(text): the value, or an exception
Raised == [t |-> "exception"]
literal_eval(text) ==
  LET r == parse_value(text) IN
  IF r.ok /\ r.rest = << >> THEN r.val ELSE Raised

\* --------------------------------------------- the dictionaries of the runs
light_of(d, n, m) ==
  IF d = "S4" THEN PyDict(<<
    <<"wl_min", PyFloat(wl_min * 100)>>, <<"wl_max", PyFloat(wl_max * 100)>>,
    <<"n_wl", PyInt(n)>>, <<"theta", PyFloat(0)>>, <<"phi", PyFloat(0)>>,
    <<"pol", PyList(<<PyFloat(0), PyFloat(100)>>)>>, <<"NumBasis", PyInt(100)>> >>)
  ELSE IF d = "EMU" THEN PyDict(<<
    <<"wl_min", PyFloat(wl_min * 100)>>, <<"wl_max", PyFloat(wl_max * 100)>>,
    <<"n_wl", PyInt(n)>>, <<"theta", PyFloat(0)>>, <<"phi", PyFloat(0)>>,
    <<"pol", PyStr("TM")>>, <<"max_order_PWs", PyInt(2)>> >>)
  ELSE PyDict(<<
    <<"wl_min", PyFloat(wl_min * 100)>>, <<"wl_max", PyFloat(wl_max * 100)>>,
    <<"n_wl", PyInt(n)>>, <<"theta_min", PyFloat(theta_min * 100)>>,
    <<"theta_max", PyFloat(theta_max * 100)>>, <<"n_theta", PyInt(m)>>,
    <<"phi", PyFloat(0)>>, <<"max_order_PWs", PyInt(2)>> >>)

struct_of(d) ==
  IF d \in {"S4", "S4LF"} THEN PyDict(<<
    <<"inc_shape", PyStr("circle")>>, <<"nd_radius", PyFloat(10000)>>,
    <<"nd_height", PyFloat(10000)>>, <<"nd_period_x", PyFloat(60000)>>,
    <<"nd_period_y", PyFloat(60000)>>, <<"nd_inc_mat", PyStr("e_au")>>,
    <<"nd_back_mat", PyStr("e_vacuum")>>, <<"sub_mat", PyStr("e_vacuum")>>,
    <<"sup_mat", PyStr("e_vacuum")>>,
    <<"materials_stack", PyList(<<PyStr("e_vacuum"), PyStr("e_au"), PyStr("e_vacuum")>>)>> >>)
  ELSE PyDict(<<
    <<"periodicity", PyStr("2D_array")>>, <<"inc_shape", PyStr("circle")>>,
    <<"nd_radius", PyFloat(10000)>>, <<"nd_height", PyFloat(10000)>>,
    <<"nd_period_x", PyFloat(60000)>>, <<"nd_period_y", PyFloat(60000)>>,
    <<"nd_inc_mat", PyStr("Au")>>, <<"nd_back_mat", PyStr("Air")>>,
    <<"nd_loss", PyBool(TRUE)>>, <<"sub_mat", PyStr("Air")>>,
    <<"sup_mat", PyStr("Air")>>, <<"sub_loss", PyBool(FALSE)>>,
    <<"sup_loss", PyBool(FALSE)>> >>
    \o (IF d = "COMB" THEN << <<"n_layers", PyInt(n_layers)>> >> ELSE << >>))

opts_of(d) ==
  IF d \in {"S4", "S4LF"} THEN PyDict(<<
    <<"PolarizationDecomposition", PyBool(TRUE)>>,
    <<"PolarizationBasis", PyStr("Jones")>> >>)
  ELSE PyDict(<<
    <<"plotting_fields", PyBool(d = "EMULF")>>, <<"make_mesh_now", PyBool(TRUE)>>,
    <<"force_mesh", PyBool(TRUE)>>, <<"lc_bkg", PyFloat(15)>>,
    <<"lc2", PyFloat(200)>>, <<"lc3", PyFloat(200)>> >>)

mats_of(d) ==
  IF d \in {"S4", "S4LF"} THEN PyDict(<< >>)
  ELSE PyDict(<< <<"Au", PyObj("materials.Material")>>,
                 <<"Air", PyObj("materials.Material")>> >>)

\* the light dictionary of the near-field notebooks, before light['wl'] is set
light_lf(d) ==
  IF d = "S4LF" THEN PyDict(<<
    <<"theta", PyFloat(0)>>, <<"phi", PyFloat(0)>>,
    <<"pol", PyList(<<PyFloat(0), PyFloat(100)>>)>>, <<"NumBasis", PyInt(100)>> >>)
  ELSE PyDict(<<
    <<"theta", PyFloat(0)>>, <<"phi", PyFloat(0)>>,
    <<"pol", PyStr("TM")>>, <<"max_order_PWs", PyInt(2)>> >>)

\* d[key] = v: replaces the value of a key, or adds the key at the end
SetItem(d, key, v) ==
  IF \E i \in 1..Len(d.items) : d.items[i][1] = key
  THEN PyDict([i \in 1..Len(d.items) |->
                 IF d.items[i][1] = key THEN << key, v >> ELSE d.items[i]])
  ELSE PyDict(Append(d.items, << key, v >>))

n_wl == Get(light, "n_wl").n
n_theta == IF driver = "COMB" THEN Get(light, "n_theta").n ELSE 1
phi == Get(light, "phi").c \div 100
max_order_PWs == Get(light, "max_order_PWs").n

Drivers == {"S4", "EMU", "COMB"}
LFDrivers == {"S4LF", "EMULF"}
Workers == 1..max_workers
Points  == 1..n_wl

\* ------------------------------------------------------------- sweep axes
\* np.linspace(start, stop, num): num points, endpoints included
linspace(start, stop, num) ==
  [i \in 1..num |->
     IF num = 1 THEN start
     ELSE IF i = num THEN stop
     ELSE start + ((i - 1) * (stop - start)) \div (num - 1)]

v_wl == linspace(Get(light, "wl_min").c \div 100, Get(light, "wl_max").c \div 100, n_wl)
v_theta ==
  linspace(Get(light, "theta_min").c \div 100, Get(light, "theta_max").c \div 100, n_theta)

\* objects.Light(wl, max_order_PWs=..., theta=..., phi=...)
Light(wl, theta) ==
  [wl |-> wl, theta |-> theta, phi |-> phi, max_order_PWs |-> max_order_PWs]

\* the iterable handed to executor.map
light_list ==
  IF driver = "S4" THEN v_wl
  ELSE [i \in 1..n_wl |->
          Light(v_wl[i], IF driver = "COMB" THEN v_theta[i_theta]
                         ELSE Get(light, "theta").c \div 100)]

\* ------------------------------------------------------------ S4 evaluator
\* utils.db_to_eps(wl, eps_db, struct['materials_stack']): permittivities of
\* [sup_mat, nd_inc_mat, sub_mat] at wl
db_to_eps(wl) ==
  LET materials_stack == Lookup(struct, "materials_stack")
  IN IF materials_stack = None
     THEN << <<"e_vacuum", wl>>, <<"e_au", wl>>, <<"e_vacuum", wl>> >>
     ELSE [k \in 1..Len(materials_stack.items) |-> << materials_stack.items[k].s, wl >>]

\* the material name each region of the S4 stack is given: AddLayer("Inc", 0.0,
\* "Air"), AddLayer("Slab", nd_height, "Air"), SetRegionCircle("Slab", "Au", ...),
\* AddLayer("Sub", 0.0, "Air")
region_material ==
  [superstrate |-> "Air", background |-> "Air", inclusion |-> "Au", substrate |-> "Air"]

\* the S object after the stack-building cell: S4.New(..., NumBasis),
\* SetMaterial, AddLayer, SetExcitationPlanewave((theta, phi), pol[0], pol[1]),
\* SetFrequency
S_new(lgt) ==
  [exc |-> "pol", freq |-> wl_min,
   Air |-> db_to_eps(wl_min)[1], Au |-> db_to_eps(wl_min)[2],
   NumBasis |-> Lookup(lgt, "NumBasis"),
   angles |-> << Lookup(lgt, "theta"), Lookup(lgt, "phi") >>,
   amps |-> IF Lookup(lgt, "pol") # None /\ Lookup(lgt, "pol").t = "list"
            THEN Lookup(lgt, "pol").items ELSE << >>]

S_built == S_new(light)

\* the amplitudes rta passes: 1.0/np.sqrt(2.0) and -1.0j/np.sqrt(2.0)
circular == << PyComplex(71, 0), PyComplex(0, -71) >>

\* rta, first part: SetExcitationPlanewave((theta, phi), s, p) and SetFrequency
rta_excite(s, wl) ==
  [s EXCEPT !.exc = "circ", !.freq = wl,
            !.angles = << Lookup(light, "theta"), Lookup(light, "phi") >>,
            !.amps = circular]

\* rta, second part: SetMaterial('Air'), SetMaterial('Au')
rta_materials(s, wl) ==
  [s EXCEPT !.Air = db_to_eps(wl)[1], !.Au = db_to_eps(wl)[2]]

\* S.GetPowerFlux and the R, T, A derived from it: whatever the solver yields
\* is determined by the state of the handle it is called on
rta_fluxes(s) ==
  << <<"R", s.exc, s.freq, s.Air, s.Au>>,
     <<"T", s.exc, s.freq, s.Air, s.Au>>,
     <<"A", s.exc, s.freq, s.Air, s.Au>> >>

\* variant: the workers are threads of the driver and share its one handle
HandleShared(w) == 0

\* the process whose copy of S a worker uses: each worker process has its own
HandleOf(w) == w

\* ------------------------------------------------------- EMUstack evaluator
\* simulate_stack(light): Stack((sim_substrate, sim_NDs, sim_superstrate))
simulate_stack(lgt) == [light |-> lgt, layers |-> n_layers]

\* what stack.calc_scat(pol) leaves in the stack's r_list, t_list and a_list:
\* one entry per interface for t and a (the last is the total), one r
SolverYield(pol) ==
  IF pol = "TE" THEN <<2, 1, 0>>
  ELSE IF pol = "TM" THEN <<1, 2, 0>>
  ELSE IF pol = "R Circ" THEN sol.rc
  ELSE sol.lc

calc_scat(stack, pol) ==
  LET b == SolverYield(pol)
      o == (stack.light.wl - wl_min) \div 100 + stack.light.theta \div 5
  IN [r_list |-> << b[1] + o >>,
      t_list |-> [k \in 1..(stack.layers - 1) |->
                    IF k = stack.layers - 1 THEN b[2] + o ELSE b[2] + o + 10 * k],
      a_list |-> [k \in 1..(stack.layers - 1) |->
                    IF k = stack.layers - 1 THEN b[3] + o ELSE b[3] + o + 10 * k]]

RECURSIVE extend_all(_, _, _)
\* the list built by calling .extend(stack.<which>) for every stack in order
extend_all(stacks, pol, which) ==
  IF stacks = << >> THEN << >>
  ELSE LET sc == calc_scat(Head(stacks), pol)
           part == IF which = "a" THEN sc.a_list
                   ELSE IF which = "t" THEN sc.t_list ELSE sc.r_list
       IN part \o extend_all(Tail(stacks), pol, which)

\* variant: the entry at the start of each stack's block is taken
rta_spectra_first(stacks, pol) ==
  LET a_list == extend_all(stacks, pol, "a")
      t_list == extend_all(stacks, pol, "t")
      r_list == extend_all(stacks, pol, "r")
      layers_steps == stacks[1].layers - 1
      n == Len(stacks)
  IN << [i \in 1..n |-> r_list[(i - 1) + 1]],
        [i \in 1..n |-> t_list[((i - 1) * layers_steps) + 1]],
        [i \in 1..n |-> a_list[((i - 1) * layers_steps) + 1]] >>

\* rta_spectra(stacks_list, pol): (r_tot, t_tot, a_tot); index i is 0-based
\* in the source, list positions are 1-based here
rta_spectra(stacks, pol) ==
  LET a_list == extend_all(stacks, pol, "a")
      t_list == extend_all(stacks, pol, "t")
      r_list == extend_all(stacks, pol, "r")
      layers_steps == stacks[1].layers - 1
      n == Len(stacks)
  IN << [i \in 1..n |-> r_list[(i - 1) + 1]],
        [i \in 1..n |-> t_list[layers_steps - 1 + ((i - 1) * layers_steps) + 1]],
        [i \in 1..n |-> a_list[layers_steps - 1 + ((i - 1) * layers_steps) + 1]] >>

\* --------------------------------------------------- floating point results
\* float64 values: nan, +-inf, or the finite value num / den (den > 0)
NaN == [k |-> "nan"]
Inf(neg) == [k |-> "inf", neg |-> neg]
Rat(num, den) == [k |-> "rat", num |-> num, den |-> den]

\* binary floating point with a significand of Precision bits, round to
\* nearest, ties to even; numbers are counted in units of the smallest
\* spacing, so that 1.0 is One
One == 2 ^ (Precision + 2)

RECURSIVE Spacing(_, _)
\* the spacing of the floating-point numbers around the magnitude x
Spacing(x, g) == IF x < g * 2 ^ Precision THEN g ELSE Spacing(x, 2 * g)

\* the floating-point number nearest to the real number x
fl(x) ==
  LET a == Abs(x)
      g == Spacing(a, 1)
      q == a \div g
      r == a % g
      m == IF 2 * r < g THEN q * g
           ELSE IF 2 * r > g THEN (q + 1) * g
           ELSE IF q % 2 = 0 THEN q * g ELSE (q + 1) * g
  IN IF x < 0 THEN -m ELSE m

\* a + b and a - b as float64 evaluates them
fadd(a, b) == fl(a + b)
fsub(a, b) == fl(a - b)

\* variant: the ratios are used without np.abs
rta_signed(back_over_forw, forw2_over_forw) ==
  << back_over_forw, forw2_over_forw,
     fsub(fsub(One, back_over_forw), forw2_over_forw) >>

\* rta, last part: R = np.abs(back_1/forw_1); T = np.abs(forw_2/forw_1);
\* A = 1 - R - T; return R, T, A
rta_values(back_over_forw, forw2_over_forw) ==
  LET R == Abs(back_over_forw)
      T == Abs(forw2_over_forw)
  IN << R, T, fsub(fsub(One, R), T) >>

\* variant: division by zero is masked to 0 (np.divide(..., where=b != 0))
np_divide_masked(a, b) ==
  IF b = 0 THEN Rat(0, 1) ELSE Rat(IF b < 0 THEN -a ELSE a, Abs(b))

\* numpy float64 division of a by b: division by zero yields nan or +-inf
\* (with a RuntimeWarning, no exception)
np_divide(a, b) ==
  IF b = 0 THEN (IF a = 0 THEN NaN ELSE Inf(a < 0))
  ELSE Rat(IF b < 0 THEN -a ELSE a, Abs(b))

\* variant: the operands of the difference are exchanged
CD_swapped(v_l, v_r) ==
  [i \in DOMAIN v_l |-> np_divide(v_r[i] - v_l[i], v_l[i] + v_r[i])]

\* v_X_cd = (v_X_l - v_X_r) / (v_X_l + v_X_r), elementwise
CD(v_l, v_r) == [i \in DOMAIN v_l |-> np_divide(v_l[i] - v_r[i], v_l[i] + v_r[i])]

\* '%8.5f' % x : the text of a field, a decimal with five places (given in
\* units of 1e-5, rounded to nearest) or the words nan / inf
Text(e5) == [txt |-> "fin", e5 |-> e5]
fmt_f5(x) ==
  IF x.k = "nan" THEN [txt |-> "nan"]
  ELSE IF x.k = "inf" THEN [txt |-> "inf", neg |-> x.neg]
  ELSE LET q == (2 * Abs(x.num) * 100000 + x.den) \div (2 * x.den)
       IN Text(IF x.num < 0 THEN -q ELSE q)

\* line9 of the header, the column line: the names it lists
header_columns ==
  << "lambda", "theta", "r_te", "t_te", "a_te", "r_tm", "t_tm", "a_tm",
     "r_cd", "t_cd", "a_cd", "r_rc", "t_rc", "a_rc", "r_lc", "t_lc", "a_lc" >>

\* one row of the text table: the 18 values given to the format string
Row(i_wl, theta, te, tm, cd, rc, lc) ==
  LET F(n) == fmt_f5(Rat(n, 1)) IN
  << F(v_wl[i_wl]), F(theta), F(phi),
     F(te[1][i_wl]), F(te[2][i_wl]), F(te[3][i_wl]),
     F(tm[1][i_wl]), F(tm[2][i_wl]), F(tm[3][i_wl]),
     fmt_f5(cd[1][i_wl]), fmt_f5(cd[2][i_wl]), fmt_f5(cd[3][i_wl]),
     F(rc[1][i_wl]), F(rc[2][i_wl]), F(rc[3][i_wl]),
     F(lc[1][i_wl]), F(lc[2][i_wl]), F(lc[3][i_wl]) >>

\* variant: the row write sits outside the wavelength loop, one row per angle
TableRowsOnce(stacks, theta) ==
  LET te == rta_spectra(stacks, "TE")
      tm == rta_spectra(stacks, "TM")
      rc == rta_spectra(stacks, "R Circ")
      lc == rta_spectra(stacks, "L Circ")
      cd == << CD(lc[1], rc[1]), CD(lc[2], rc[2]), CD(lc[3], rc[3]) >>
  IN << Row(n_wl, theta, te, tm, cd, rc, lc) >>

\* the rows written for one angle: the four reductions, the CD ratios and
\* one row per wavelength
TableRows(stacks, theta) ==
  LET te == rta_spectra(stacks, "TE")
      tm == rta_spectra(stacks, "TM")
      rc == rta_spectra(stacks, "R Circ")
      lc == rta_spectra(stacks, "L Circ")
      cd == << CD(lc[1], rc[1]), CD(lc[2], rc[2]), CD(lc[3], rc[3]) >>
  IN [i_wl \in 1..n_wl |-> Row(i_wl, theta, te, tm, cd, rc, lc)]

\* np.array(list_of_triples).T
Transpose(m) == [j \in 1..3 |-> [i \in 1..Len(m) |-> m[i][j]]]

\* variant: np.vstack((v_R, v_T, v_A)), one row per spectrum
vstack(v) == << v[1], v[2], v[3] >>

\* np.column_stack((v_R, v_T, v_A))
column_stack(v) == [i \in 1..Len(v[1]) |-> << v[1][i], v[2][i], v[3][i] >>]

\* ------------------------------------------- stacks as objects in the driver
\* a stack as simulate_stack returns it, with the lists calc_scat will fill
stack_object(lgt, L) ==
  [light |-> lgt, layers |-> L, r_list |-> << >>, t_list |-> << >>, a_list |-> << >>]

\* variant: calc_scat keeps what the lists held and appends to them
calc_scat_appending(stack, pol) ==
  [stack EXCEPT !.r_list = @ \o calc_scat(stack, pol).r_list,
                !.t_list = @ \o calc_scat(stack, pol).t_list,
                !.a_list = @ \o calc_scat(stack, pol).a_list]

\* stack.calc_scat(pol = pol): the stack afterwards, its r_list, t_list and
\* a_list replaced by those of this polarization
calc_scat_on(stack, pol) ==
  [stack EXCEPT !.r_list = calc_scat(stack, pol).r_list,
                !.t_list = calc_scat(stack, pol).t_list,
                !.a_list = calc_scat(stack, pol).a_list]

RECURSIVE Flatten(_)
\* the list all the lists of a sequence were .extend()-ed into, in order
Flatten(lists) ==
  IF lists = << >> THEN << >> ELSE Head(lists) \o Flatten(Tail(lists))

\* rta_spectra(stacks_list, pol) on stack objects: the stacks as the calls of
\* calc_scat leave them, and the fresh arrays (r_tot, t_tot, a_tot) returned
rta_spectra_on(stacks, pol) ==
  LET after == [i \in DOMAIN stacks |-> calc_scat_on(stacks[i], pol)]
      a_list == Flatten([i \in DOMAIN stacks |-> after[i].a_list])
      t_list == Flatten([i \in DOMAIN stacks |-> after[i].t_list])
      r_list == Flatten([i \in DOMAIN stacks |-> after[i].r_list])
      layers_steps == stacks[1].layers - 1
      n == Len(stacks)
  IN [stacks |-> after,
      value |-> << [i \in 1..n |-> r_list[(i - 1) + 1]],
                   [i \in 1..n |-> t_list[layers_steps - 1 + ((i - 1) * layers_steps) + 1]],
                   [i \in 1..n |-> a_list[layers_steps - 1 + ((i - 1) * layers_steps) + 1]] >>]

\* --------------------------------------------------------------- file names
\* the second of the day at which the session begins (17:58:59)
session_start == (17 * 60 + 58) * 60 + 59

\* datetime.now(): the wall clock, read in half seconds
now == clock

\* now.strftime("%d%m%y_%H%M%S"): day, month, year, hour, minute and second;
\* the fraction of the second is dropped
strftime(t) ==
  LET sec == session_start + t \div 2
  IN [tok |-> "stamp", d |-> 18, m |-> 2, y |-> 22,
      H |-> sec \div 3600, M |-> (sec \div 60) % 60, S |-> sec % 60]

\* the literal each driver starts its file name with, e.g. "S4_AuNdArraySpectra_"
prefix_of(d) ==
  << StrTok(IF d \in {"S4", "S4LF"} THEN "S4" ELSE "EMU"), StrTok("_"),
     StrTok(IF d \in {"S4LF", "EMULF"} THEN "AuNdArrayLF" ELSE "AuNdArraySpectra"),
     StrTok("_") >>

\* variant: the height is written before the radius
out_filename_swapped(d, timestamp) ==
  prefix_of(d) \o << StrTok(Get(struct, "inc_shape").s), StrTok("_px") >>
  \o py_repr(Get(struct, "nd_period_x")) \o << StrTok("_py") >>
  \o py_repr(Get(struct, "nd_period_y")) \o << StrTok("_r") >>
  \o py_repr(Get(struct, "nd_height")) \o << StrTok("_h") >>
  \o py_repr(Get(struct, "nd_radius")) \o << StrTok("_"), timestamp >>

\* out_filename = prefix + inc_shape + "_px" + str(nd_period_x) + "_py" +
\* str(nd_period_y) + "_r" + str(nd_radius) + "_h" + str(nd_height) + "_" + timestamp
out_filename(d, timestamp) ==
  prefix_of(d) \o << StrTok(Get(struct, "inc_shape").s), StrTok("_px") >>
  \o py_repr(Get(struct, "nd_period_x")) \o << StrTok("_py") >>
  \o py_repr(Get(struct, "nd_period_y")) \o << StrTok("_r") >>
  \o py_repr(Get(struct, "nd_radius")) \o << StrTok("_h") >>
  \o py_repr(Get(struct, "nd_height")) \o << StrTok("_"), timestamp >>

\* 'data/' + out_filename + '.nc', and out_filename + '.out' for the text table
path_of(d, timestamp) ==
  IF d = "COMB" THEN out_filename(d, timestamp) \o << StrTok(".out") >>
  ELSE << StrTok("data/") >> \o out_filename(d, timestamp) \o << StrTok(".nc") >>

\* variant: exclusive creation, a file that exists is kept as it is
PutNew(dir, p, content) ==
  [q \in DOMAIN dir \cup {p} |-> IF q \in DOMAIN dir THEN dir[q] ELSE content]

\* the directory after a file is created or replaced at path p (mode 'w')
Put(dir, p, content) ==
  [q \in DOMAIN dir \cup {p} |-> IF q = p THEN content ELSE dir[q]]

Init ==
  /\ driver \in Drivers
  /\ \E n \in 1..MaxNwl, m \in 1..MaxNtheta :
       /\ driver # "COMB" => m = 1
       /\ light = light_of(driver, n, m)
  /\ struct = struct_of(driver)
  /\ opts = opts_of(driver)
  /\ mats = mats_of(driver)
  /\ max_workers \in 1..MaxWorkers
  /\ sol = [rc |-> <<1, 1, 0>>, lc |-> <<0, 1, 1>>]
  /\ pc = IF driver = "COMB" THEN "open" ELSE "loop"
  /\ i_theta = 1
  /\ pools = 0
  /\ fut = << >>
  /\ busy = [w \in Workers |-> 0]
  /\ S = [p \in 0..max_workers |-> S_built]
  /\ res = << >>
  /\ collected = << >>
  /\ stacks_list = Unset
  /\ arrays = Unset
  /\ f = [state |-> "none", header |-> FALSE, rows |-> << >>, tail |-> 0, name |-> << >>]
  /\ nc = << >>
  /\ evaluated = {}
  /\ order = << >>
  /\ ran = [w \in Workers |-> << >>]
  /\ at_start = Unset
  /\ call = Unset
  /\ disk = << >>
  /\ clock = 0
  /\ run = 1
  /\ parsed = Unset


\* --------------------------------------------------------------- the pool
\* variant: the executor is never shut down
no_shutdown(p) == p

\* leaving the `with` block shuts the executor down
shutdown(p) == p - 1

Pending == {i \in DOMAIN fut : fut[i] = "pending"}
Min(set) == CHOOSE x \in set : \A y \in set : x <= y

\* f = open(out_filename + '.out', 'w'); f.write(header)
OpenFile ==
  /\ pc = "open"
  /\ f' = [f EXCEPT !.state = "open", !.header = TRUE,
                    !.name = path_of(driver, strftime(now))]
  /\ disk' = Put(disk, f'.name, [header |-> TRUE, rows |-> << >>, tail |-> 0])
  /\ pc' = "loop"
  /\ UNCHANGED << cfg, time, parsed, hist, i_theta, pools, fut,
                  busy, S, res, collected, stacks_list, arrays, nc, evaluated >>

\* with ProcessPoolExecutor() as executor: executor.map(fn, points) submits
\* every point at once; the worker processes are forked from the driver
CreatePool ==
  /\ pc = "loop"
  /\ pools' = pools + 1
  /\ fut' = [i \in Points |-> "pending"]
  /\ res' = [i \in Points |-> None]
  /\ busy' = [w \in Workers |-> 0]
  /\ S' = [p \in 0..max_workers |-> S[0]]
  /\ collected' = << >>
  /\ pc' = "map"
  /\ order' = << >>
  /\ ran' = [w \in Workers |-> << >>]
  /\ at_start' = << light, struct, opts >>
  /\ call' = call
  /\ UNCHANGED << cfg, env, parsed, i_theta, stacks_list,
                  arrays, f, nc, evaluated >>

\* an idle worker takes the next queued call; rta begins on its handle
Start(w) ==
  /\ pc \in {"map", "unwind"}
  /\ busy[w] = 0
  /\ Pending # {}
  /\ LET i == Min(Pending) IN
       /\ fut' = [fut EXCEPT ![i] = "running"]
       /\ busy' = [busy EXCEPT ![w] = i]
       /\ S' = IF driver = "S4"
               THEN [S EXCEPT ![HandleOf(w)] = rta_excite(@, light_list[i])]
               ELSE S
  /\ ran' = [ran EXCEPT ![w] = Append(@, Min(Pending))]
  /\ order' = order
  /\ at_start' = at_start
  /\ call' = call
  /\ UNCHANGED << cfg, env, parsed, pc, i_theta, pools,
                  res, collected, stacks_list, arrays, f, nc, evaluated >>

\* the evaluation returns: its value becomes the result of the future
Finish(w) ==
  /\ pc \in {"map", "unwind"}
  /\ busy[w] # 0
  /\ LET i == busy[w]
         s == rta_materials(S[HandleOf(w)], light_list[i])
     IN /\ S' = IF driver = "S4" THEN [S EXCEPT ![HandleOf(w)] = s] ELSE S
        /\ res' = [res EXCEPT ![i] = IF driver = "S4" THEN rta_fluxes(s)
                                     ELSE simulate_stack(light_list[i])]
        /\ fut' = [fut EXCEPT ![i] = "done"]
        /\ evaluated' = evaluated \cup {<<i_theta, i>>}
  /\ busy' = [busy EXCEPT ![w] = 0]
  /\ order' = Append(order, busy[w])
  /\ ran' = ran
  /\ at_start' = at_start
  /\ call' = call
  /\ UNCHANGED << cfg, env, parsed, pc, i_theta, pools,
                  collected, stacks_list, arrays, f, nc >>

\* the evaluation raises (material lookup, solver, mesh): the exception
\* becomes the outcome of the future and the worker goes on
Fail(w) ==
  /\ pc \in {"map", "unwind"}
  /\ busy[w] # 0
  /\ fut' = [fut EXCEPT ![busy[w]] = "failed"]
  /\ busy' = [busy EXCEPT ![w] = 0]
  /\ order' = Append(order, busy[w])
  /\ ran' = ran
  /\ at_start' = at_start
  /\ call' = call
  /\ UNCHANGED << cfg, env, parsed, pc, i_theta, pools, S,
                  res, collected, stacks_list, arrays, f, nc, evaluated >>

\* variant: results are taken as they complete (as_completed), latest point first
NextCompleted ==
  LET c == {i \in DOMAIN fut : fut[i] = "done"
                               /\ \A j \in DOMAIN collected : collected[j] # res[i]}
  IN IF c = {} THEN Len(collected) + 1
     ELSE CHOOSE x \in c : \A y \in c : y <= x

\* list(...) takes the next result of the map iterator, in submission order
NextResult == Len(collected) + 1

Collect ==
  /\ pc = "map"
  /\ NextResult <= n_wl
  /\ fut[NextResult] = "done"
  /\ collected' = Append(collected, res[NextResult])
  /\ UNCHANGED << cfg, env, parsed, hist, pc, i_theta, pools, fut,
                  busy, S, res, stacks_list, arrays, f, nc, evaluated >>

\* variant: the exception is caught, a placeholder stands in for the result
\* and the sweep goes on
RaiseRecover ==
  /\ pc = "map"
  /\ Len(collected) + 1 <= n_wl
  /\ fut[Len(collected) + 1] = "failed"
  /\ collected' = Append(collected,
                         IF driver = "S4" THEN << None, None, None >>
                         ELSE simulate_stack(light_list[Len(collected) + 1]))
  /\ UNCHANGED << cfg, env, parsed, hist, pc, i_theta, pools, fut, busy, S, res,
                  stacks_list, arrays, f, nc, evaluated >>

\* the next result is an exception: it is raised in the driver, the list
\* under construction is dropped and the iterator cancels the futures that
\* have not been handed to a worker (the one already queued may still run)
Raise ==
  /\ pc = "map"
  /\ NextResult <= n_wl
  /\ fut[NextResult] = "failed"
  /\ collected' = << >>
  /\ \E keep \in SUBSET (IF Pending = {} THEN {} ELSE {Min(Pending)}) :
       fut' = [i \in DOMAIN fut |->
                 IF fut[i] = "pending" /\ i \notin keep THEN "cancelled" ELSE fut[i]]
  /\ pc' = "unwind"
  /\ UNCHANGED << cfg, env, parsed, hist, i_theta, pools, busy, S,
                  res, stacks_list, arrays, f, nc, evaluated >>

\* the statement under `with` completes and the pool shuts down
ExitWith ==
  /\ pc = "map"
  /\ Len(collected) = n_wl
  /\ pools' = shutdown(pools)
  /\ IF driver = "S4"
     THEN /\ arrays' = Transpose(collected)
          /\ stacks_list' = stacks_list
          /\ pc' = "save"
     ELSE /\ stacks_list' = collected
          /\ arrays' = arrays
          /\ pc' = "reduce"
  /\ UNCHANGED << cfg, env, parsed, hist, i_theta, fut, busy, S,
                  res, collected, f, nc, evaluated >>

\* the exception leaves the `with` block: shutdown(wait=True) waits for the
\* calls still running, then the exception ends the run
Abort ==
  /\ pc = "unwind"
  /\ Pending = {}
  /\ \A w \in Workers : busy[w] = 0
  /\ pools' = shutdown(pools)
  /\ pc' = "aborted"
  /\ UNCHANGED << cfg, env, parsed, hist, i_theta, fut, busy, S,
                  res, collected, stacks_list, arrays, f, nc, evaluated >>

\* v_R, v_T, v_A = rta_spectra(stacks_list, pol=light['pol'])
Reduce ==
  /\ pc = "reduce"
  /\ driver = "EMU"
  /\ arrays' = rta_spectra(stacks_list, Get(light, "pol").s)
  /\ pc' = "save"
  /\ UNCHANGED << cfg, env, parsed, hist, i_theta, pools, fut,
                  busy, S, res, collected, stacks_list, f, nc, evaluated >>

\* variant: the driver stores the last wavelength in light before attaching it
attrs_with_wl(d) ==
  << <<"light", py_str(PyDict(Append(light.items, <<"wl", PyFloat(wl_max * 100)>>)))>>,
     <<"struct", py_str(struct)>> >>
  \o (IF d = "S4" THEN << <<"s4", py_str(opts)>> >>
      ELSE << <<"emu", py_str(opts)>>, <<"mats", py_str(mats)>> >>)

\* the attributes a spectra driver attaches: name and str(dictionary)
attrs_of(d) ==
  << <<"light", py_str(light)>>, <<"struct", py_str(struct)>> >>
  \o (IF d = "S4" THEN << <<"s4", py_str(opts)>> >>
      ELSE << <<"emu", py_str(opts)>>, <<"mats", py_str(mats)>> >>)

\* variant: the file is written from the results received so far
SaveStreaming ==
  /\ pc = "map"
  /\ driver # "COMB"
  /\ collected # << >>
  /\ nc = << >>
  /\ nc' = << [data |-> collected, wavelength |-> v_wl,
               spectrum |-> <<"R", "T", "A">>, attrs |-> attrs_of(driver)] >>
  /\ UNCHANGED << cfg, env, parsed, hist, pc, i_theta, pools, fut, busy, S, res,
                  collected, stacks_list, arrays, f, evaluated >>

\* xr.DataArray(np.column_stack(...), coords=[v_wl, ['R','T','A']]),
\* .attrs[...] = str(...), .to_netcdf(...)
Save ==
  /\ pc = "save"
  /\ driver \in {"S4", "EMU"}
  /\ LET x == [data |-> column_stack(arrays), wavelength |-> v_wl,
               spectrum |-> <<"R", "T", "A">>, attrs |-> attrs_of(driver),
               dims |-> <<"wavelength", "spectrum">>,
               name |-> path_of(driver, strftime(now))]
     IN /\ nc' = Append(nc, x)
        /\ disk' = Put(disk, x.name, x)
  /\ pc' = "done"
  /\ UNCHANGED << cfg, time, parsed, hist, i_theta, pools, fut,
                  busy, S, res, collected, stacks_list, arrays, f, evaluated >>

\* variant: the notebook stores the loaded array again, without its attributes
ExploreStoring ==
  /\ pc = "done"
  /\ nc # << >>
  /\ parsed = Unset
  /\ parsed' = [i \in 1..Len(nc[1].attrs) |->
                  << nc[1].attrs[i][1], literal_eval(nc[1].attrs[i][2]) >>]
  /\ disk' = [disk EXCEPT ![nc[1].name].attrs = << >>]
  /\ UNCHANGED << cfg, time, hist, pc, i_theta, pools, fut, busy, S, res, collected,
                  stacks_list, arrays, f, nc, evaluated >>

\* the exploration notebook: xr.load_dataarray, then ast.literal_eval of the
\* attributes of the loaded array
Explore ==
  /\ pc = "done"
  /\ nc # << >>
  /\ parsed = Unset
  /\ parsed' = [i \in 1..Len(nc[1].attrs) |->
                  << nc[1].attrs[i][1], literal_eval(nc[1].attrs[i][2]) >>]
  /\ UNCHANGED << cfg, env, hist, pc, i_theta, pools, fut, busy, S, res, collected,
                  stacks_list, arrays, f, nc, evaluated >>

\* variant: the file is opened again with mode 'w' for every angle, only the
\* rows of the latest angle stay
ReduceWriteReopen ==
  /\ pc = "reduce"
  /\ driver = "COMB"
  /\ f' = [f EXCEPT !.rows = TableRows(stacks_list, v_theta[i_theta])]
  /\ disk' = [disk EXCEPT ![f.name].rows = f'.rows]
  /\ IF i_theta < n_theta
     THEN i_theta' = i_theta + 1 /\ pc' = "loop"
     ELSE i_theta' = i_theta /\ pc' = "close"
  /\ UNCHANGED << cfg, time, parsed, hist, pools, fut, busy, S,
                  res, collected, stacks_list, arrays, nc, evaluated >>

\* the four reductions, the CD ratios and one row per wavelength
ReduceWrite ==
  /\ pc = "reduce"
  /\ driver = "COMB"
  /\ f' = [f EXCEPT !.rows = @ \o TableRows(stacks_list, v_theta[i_theta])]
  /\ disk' = [disk EXCEPT ![f.name].rows = f'.rows]
  /\ IF i_theta < n_theta
     THEN i_theta' = i_theta + 1 /\ pc' = "loop"
     ELSE i_theta' = i_theta /\ pc' = "close"
  /\ UNCHANGED << cfg, time, parsed, hist, pools, fut, busy, S,
                  res, collected, stacks_list, arrays, nc, evaluated >>

\* f.write('\n'); f.close()
Close ==
  /\ pc = "close"
  /\ f' = [f EXCEPT !.state = "closed", !.tail = @ + 1]
  /\ disk' = [disk EXCEPT ![f.name].tail = f'.tail]
  /\ pc' = "done"
  /\ UNCHANGED << cfg, time, parsed, hist, i_theta, pools, fut,
                  busy, S, res, collected, stacks_list, arrays, nc, evaluated >>

\* x.attrs['light'] = str(light); x.to_netcdf(...): the attribute as stored
StrLight ==
  /\ pc = "attach"
  /\ nc' = << [attrs |-> << <<"light", py_str(light)>> >>] >>
  /\ pc' = "done"
  /\ UNCHANGED << cfg, env, parsed, hist, i_theta, pools, fut, busy, S, res, collected,
                  stacks_list, arrays, f, evaluated >>

\* ------------------------------------------------- the near-field notebooks
\* the spectra file each near-field notebook loads, as written in its cell:
\* 'data/<engine>_AuNdArraySpectra_circle_px600.0_py600.0_r100.0_h100.0_180222_<time>.nc'
spectra_path(d) ==
  << StrTok("data/"), StrTok(IF d = "S4LF" THEN "S4" ELSE "EMU"), StrTok("_"),
     StrTok("AuNdArraySpectra"), StrTok("_"), StrTok("circle"),
     StrTok("_px"), Num("float", 600, 0), StrTok("_py"), Num("float", 600, 0),
     StrTok("_r"), Num("float", 100, 0), StrTok("_h"), Num("float", 100, 0),
     StrTok("_"),
     [tok |-> "stamp", d |-> 18, m |-> 2, y |-> 22, H |-> 17,
      M |-> IF d = "S4LF" THEN 48 ELSE 58, S |-> IF d = "S4LF" THEN 38 ELSE 45],
     StrTok(".nc") >>

\* x.sel(spectrum=kind): the column of the array under that coordinate
sel_spectrum(x, kind) ==
  LET q == CHOOSE q \in DOMAIN x.spectrum : x.spectrum[q] = kind
  IN [i \in DOMAIN x.data |-> x.data[i][q]]

\* variant: the position of the smallest value
argmin(v) ==
  CHOOSE i \in DOMAIN v :
    /\ \A j \in DOMAIN v : v[i] <= v[j]
    /\ \A j \in DOMAIN v : j < i => v[j] > v[i]

\* .argmax().item(): the position of the largest value, the first one on ties
argmax(v) ==
  CHOOSE i \in DOMAIN v :
    /\ \A j \in DOMAIN v : v[j] <= v[i]
    /\ \A j \in DOMAIN v : j < i => v[j] < v[i]

\* xr.load_dataarray(path); wl_index = ...argmax().item();
\* light['wl'] = coords['wavelength'][wl_index].item()
LoadSpectrum ==
  /\ pc = "load"
  /\ spectra_path(driver) \in DOMAIN disk
  /\ LET x == disk[spectra_path(driver)]
         wl_index == argmax(sel_spectrum(x, "R"))
     IN light' = SetItem(light, "wl", PyFloat(x.wavelength[wl_index] * 100))
  /\ pc' = "field"
  /\ UNCHANGED << driver, struct, opts, mats, max_workers, sol, env, parsed, hist,
                  i_theta, pools, fut, busy, S, res, collected, stacks_list,
                  arrays, f, nc, evaluated >>

\* the S object of the S4 near-field notebook, built at light['wl']
S_lf ==
  LET wl == Get(light, "wl").c \div 100 IN
  [exc |-> "pol", freq |-> wl,
   Air |-> db_to_eps(wl)[1], Au |-> db_to_eps(wl)[2],
   NumBasis |-> Get(light, "NumBasis"),
   angles |-> << Get(light, "theta"), Get(light, "phi") >>,
   amps |-> Get(light, "pol").items]

\* variant: the modulus of E is returned as the solver lays it out, without .T
lf_s4_plain(s, z, n_points) ==
  [engine |-> "S4", handle |-> s, z |-> z,
   NumSamples |-> << n_points, n_points >>, transposed |-> FALSE]

\* lf(S, z, n_points): S.GetFieldsOnGrid on an n_points x n_points grid, the
\* modulus of E, transposed
lf_s4(s, z, n_points) ==
  [engine |-> "S4", handle |-> s, z |-> z,
   NumSamples |-> << n_points, n_points >>, transposed |-> TRUE]

\* lf(stack, pol, z, n_points, lay_interest): calc_scat(pol), the field
\* interpolator of layer 1 at height z, evaluated on a 500 x 500 grid, transposed
lf_emu(stack, pol, z, n_points, lay_interest) ==
  [engine |-> "EMU", stack |-> stack, scat |-> calc_scat(stack, pol), pol |-> pol,
   z |-> z, lay_interest |-> 1, NumSamples |-> << 500, 500 >>, transposed |-> TRUE]

\* S4: the stack-building cell and m_AbsE = lf(S, z=0.5 * nd_height);
\* EMUstack: stack_wl = simulate_stack(light_wl) and
\* m_AbsE = lf(stack_wl, pol=light['pol'], z=0.5 * nd_height)
ComputeField ==
  /\ pc = "field"
  /\ LET z == Get(struct, "nd_height").c \div 2 IN
     IF driver = "S4LF"
     THEN /\ S' = [S EXCEPT ![0] = S_lf]
          /\ arrays' = lf_s4(S_lf, z, 500)
          /\ call' = [z |-> z, n_points |-> 500]
          /\ stacks_list' = stacks_list
     ELSE /\ S' = S
          /\ stacks_list' = << simulate_stack(Light(Get(light, "wl").c \div 100,
                                                    Get(light, "theta").c \div 100)) >>
          /\ arrays' = lf_emu(stacks_list'[1], Get(light, "pol").s, z, 500, 1)
          /\ call' = [pol |-> Get(light, "pol").s, z |-> z, n_points |-> 500,
                      lay_interest |-> 1]
  /\ pc' = "save"
  /\ UNCHANGED << cfg, env, parsed, order, ran, at_start, i_theta, pools, fut, busy,
                  res, collected, f, nc, evaluated >>

\* a call lf(stack, pol=..., z=..., n_points=..., lay_interest=...) of the
\* EMUstack near-field function with arguments of the caller's choice
CallLf ==
  /\ pc = "field"
  /\ driver = "EMULF"
  /\ stacks_list' = << simulate_stack(Light(Get(light, "wl").c \div 100,
                                            Get(light, "theta").c \div 100)) >>
  /\ \E pol \in {"TE", "TM", "R Circ", "L Circ"},
        z \in {0, Get(struct, "nd_height").c \div 2},
        n_points \in (1..MaxPoints) \cup {500},
        lay_interest \in 0..(n_layers - 1) :
       /\ arrays' = lf_emu(stacks_list'[1], pol, z, n_points, lay_interest)
       /\ call' = [pol |-> pol, z |-> z, n_points |-> n_points,
                   lay_interest |-> lay_interest]
  /\ pc' = "save"
  /\ UNCHANGED << cfg, env, parsed, order, ran, at_start, i_theta, pools, fut, busy,
                  S, res, collected, f, nc, evaluated >>

\* the grid sample held at position k of v_x and v_y, which the two loops
\* fill with x outer and y inner (positions and indices counted from 0)
fill(k, n) == [ix |-> k \div n, iy |-> k % n]

\* .reshape(n, n): element [a, b] is position a * n + b of the flat array
reshape_at(a, b, n) == a * n + b

\* the grid sample whose field magnitude is element [j, i] of the map m:
\* EMUstack AbsE(v_x, v_y).reshape(n, n).T; S4 E[ix][iy] of GetFieldsOnGrid, .T
Item(m, j, i) ==
  LET a == IF m.transposed THEN i ELSE j
      b == IF m.transposed THEN j ELSE i
  IN IF m.engine = "EMU"
     THEN fill(reshape_at(a, b, m.NumSamples[2]), m.NumSamples[2])
     ELSE [ix |-> a, iy |-> b]

\* m.shape of a near-field map
Shape(m) ==
  IF m.transposed THEN << m.NumSamples[2], m.NumSamples[1] >> ELSE m.NumSamples

\* the attributes a near-field notebook attaches
attrs_lf(d) ==
  << <<"light", py_str(light)>>, <<"struct", py_str(struct)>>,
     <<"emu", py_str(opts)>> >>
  \o (IF d = "S4LF" THEN << >> ELSE << <<"mats", py_str(mats)>> >>)

\* xr.DataArray(m_AbsE, coords=[v_coords_y, v_coords_x], dims=["y", "x"]),
\* .attrs[...] = str(...), .to_netcdf(...)
SaveLF ==
  /\ pc = "save"
  /\ driver \in LFDrivers
  /\ LET x == [data |-> arrays,
               y |-> << 0, Get(struct, "nd_period_y"), 500 >>,
               x |-> << 0, Get(struct, "nd_period_x"), 500 >>,
               attrs |-> attrs_lf(driver), dims |-> <<"y", "x">>,
               name |-> path_of(driver, strftime(now))]
     IN /\ nc' = Append(nc, x)
        /\ disk' = Put(disk, x.name, x)
  /\ pc' = "done"
  /\ UNCHANGED << cfg, time, parsed, hist, i_theta, pools, fut, busy, S, res,
                  collected, stacks_list, arrays, f, evaluated >>

\* a worker evaluates rta for the next queued wavelength, with the flux
\* ratios the solver yields
EvalRta ==
  /\ pc = "map"
  /\ driver = "S4"
  /\ Pending # {}
  /\ LET i == Min(Pending) IN
       /\ fut' = [fut EXCEPT ![i] = "done"]
       /\ res' = [res EXCEPT ![i] = rta_values(sol.back_over_forw, sol.forw2_over_forw)]
       /\ evaluated' = evaluated \cup {<<i_theta, i>>}
       /\ order' = Append(order, i)
       /\ ran' = [ran EXCEPT ![1] = Append(@, i)]
  /\ at_start' = at_start
  /\ call' = call
  /\ UNCHANGED << cfg, env, parsed, pc, i_theta, pools, busy, S,
                  collected, stacks_list, arrays, f, nc >>

\* the wall clock advances by half a second
Tick ==
  /\ clock < MaxClock
  /\ clock' = clock + 1
  /\ UNCHANGED << cfg, disk, run, parsed, hist, pc, i_theta, pools, fut, busy, S,
                  res, collected, stacks_list, arrays, f, nc, evaluated >>

\* the option a user switches off between two runs
edited_opts(d) ==
  SetItem(opts_of(d),
          IF d \in {"S4", "S4LF"} THEN "PolarizationDecomposition" ELSE "force_mesh",
          PyBool(FALSE))

\* the notebook is run again from its first cell, with the same struct and
\* possibly another number of wavelengths or another solver option; the
\* files on disk stay
Rerun ==
  /\ pc = "done"
  /\ run < MaxRuns
  /\ run' = run + 1
  /\ \E lgt \in (IF driver \in LFDrivers THEN {light_lf(driver)}
                 ELSE {light_of(driver, n, 1) : n \in 1..2}) :
       /\ light' = lgt
       /\ S' = [p \in 0..max_workers |-> S_new(lgt)]
  /\ opts' \in {opts_of(driver), edited_opts(driver)}
  /\ pc' = IF driver = "COMB" THEN "open"
           ELSE IF driver \in LFDrivers THEN "load" ELSE "loop"
  /\ i_theta' = 1
  /\ pools' = 0
  /\ fut' = << >>
  /\ busy' = [w \in Workers |-> 0]
  /\ res' = << >>
  /\ collected' = << >>
  /\ stacks_list' = Unset
  /\ arrays' = Unset
  /\ f' = [state |-> "none", header |-> FALSE, rows |-> << >>, tail |-> 0, name |-> << >>]
  /\ evaluated' = {}
  /\ order' = << >>
  /\ ran' = [w \in Workers |-> << >>]
  /\ at_start' = Unset
  /\ call' = call
  /\ UNCHANGED << driver, struct, mats, max_workers, sol, disk, clock, nc, parsed >>

\* one of the four reductions of the combined sweep, v_R_x, v_T_x, v_A_x =
\* rta_spectra(stacks_list, pol=...), on the stack objects of the driver
ReducePol(pol) ==
  /\ pc = "reduce"
  /\ driver = "COMB"
  /\ \A k \in DOMAIN arrays : arrays[k][1] # pol
  /\ LET out == rta_spectra_on(stacks_list, pol)
     IN /\ stacks_list' = out.stacks
        /\ arrays' = Append(arrays, << pol, out.value >>)
  /\ UNCHANGED << cfg, env, parsed, hist, pc, i_theta, pools, fut, busy, S, res,
                  collected, f, nc, evaluated >>

Next ==
  \/ OpenFile
  \/ CreatePool
  \/ \E w \in Workers : Start(w)
  \/ \E w \in Workers : Finish(w)
  \/ \E w \in Workers : Fail(w)
  \/ Collect
  \/ Raise
  \/ ExitWith
  \/ Abort
  \/ Reduce
  \/ Save
  \/ Explore
  \/ ReduceWrite
  \/ Close

Spec == Init /\ [][Next]_vars


\* the combined sweep alone, over what the solver may yield for the two
\* circular polarizations
Triples == {<<r, t, a>> : r \in 0..MaxVal, t \in 0..MaxVal, a \in (-MaxVal)..MaxVal}

InitComb ==
  /\ driver = "COMB"
  /\ \E n \in 1..MaxNwl : light = light_of("COMB", n, 1)
  /\ struct = struct_of("COMB")
  /\ opts = opts_of("COMB")
  /\ mats = mats_of("COMB")
  /\ max_workers = 1
  /\ sol \in [rc : Triples, lc : Triples]
  /\ pc = "open"
  /\ i_theta = 1
  /\ pools = 0
  /\ fut = << >>
  /\ busy = [w \in Workers |-> 0]
  /\ S = [p \in 0..max_workers |-> S_built]
  /\ res = << >>
  /\ collected = << >>
  /\ stacks_list = Unset
  /\ arrays = Unset
  /\ f = [state |-> "none", header |-> FALSE, rows |-> << >>, tail |-> 0, name |-> << >>]
  /\ nc = << >>
  /\ evaluated = {}
  /\ order = << >>
  /\ ran = [w \in Workers |-> << >>]
  /\ at_start = Unset
  /\ call = Unset
  /\ disk = << >>
  /\ clock = 0
  /\ run = 1
  /\ parsed = Unset

NextComb ==
  \/ OpenFile
  \/ CreatePool
  \/ \E w \in Workers : Start(w)
  \/ \E w \in Workers : Finish(w)
  \/ \E w \in Workers : Fail(w)
  \/ Collect
  \/ Raise
  \/ ExitWith
  \/ Abort
  \/ ReduceWrite
  \/ Close

SpecComb == InitComb /\ [][NextComb]_vars

\* str() and ast.literal_eval over configuration dictionaries of primitives
Floats == {PyFloat(-150), PyFloat(15), PyFloat(60000), PyInf(FALSE), PyInf(TRUE), PyNaN}
Prims == Floats \cup {PyInt(80), PyInt(-2), PyBool(TRUE), PyBool(FALSE), PyStr("TM")}
Lists == UNION {[1..k -> Prims] : k \in 0..MaxLen}
Values == Prims \cup {PyList(l) : l \in Lists}
Dicts ==
  {PyDict(<< <<"a", v>> >>) : v \in Values}
  \cup {PyDict(<< <<"a", v>>, <<"b", u>> >>) : v \in Values, u \in Prims}

InitRT ==
  /\ driver = "S4"
  /\ light \in Dicts
  /\ struct = PyDict(<< >>)
  /\ opts = PyDict(<< >>)
  /\ mats = PyDict(<< >>)
  /\ max_workers = 1
  /\ sol = [rc |-> <<1, 1, 0>>, lc |-> <<0, 1, 1>>]
  /\ pc = "attach"
  /\ i_theta = 1
  /\ pools = 0
  /\ fut = << >>
  /\ busy = [w \in Workers |-> 0]
  /\ S = [p \in 0..max_workers |-> S_built]
  /\ res = << >>
  /\ collected = << >>
  /\ stacks_list = Unset
  /\ arrays = Unset
  /\ f = [state |-> "none", header |-> FALSE, rows |-> << >>, tail |-> 0, name |-> << >>]
  /\ nc = << >>
  /\ evaluated = {}
  /\ order = << >>
  /\ ran = [w \in Workers |-> << >>]
  /\ at_start = Unset
  /\ call = Unset
  /\ disk = << >>
  /\ clock = 0
  /\ run = 1
  /\ parsed = Unset

NextRT ==
  \/ StrLight
  \/ Explore

SpecRT == InitRT /\ [][NextRT]_vars

\* the near-field notebooks, over the spectra their input file may hold
Spectra ==
  UNION {[1..n -> 0..(MaxVal + 1)] : n \in 1..MaxNwl}

\* the file a spectra run left at path p, with reflectances r
spectrum_file(p, r) ==
  [data |-> [i \in DOMAIN r |-> << r[i], (MaxVal + 1) - r[i], 0 >>],
   wavelength |-> linspace(wl_min, wl_max, Len(r)),
   spectrum |-> <<"R", "T", "A">>, attrs |-> << >>,
   dims |-> <<"wavelength", "spectrum">>, name |-> p]

InitLF ==
  /\ driver \in LFDrivers
  /\ light = light_lf(driver)
  /\ struct = struct_of(driver)
  /\ opts = opts_of(driver)
  /\ mats = mats_of(driver)
  /\ max_workers = 1
  /\ sol = [rc |-> <<1, 1, 0>>, lc |-> <<0, 1, 1>>]
  /\ pc = "load"
  /\ i_theta = 1
  /\ pools = 0
  /\ fut = << >>
  /\ busy = [w \in Workers |-> 0]
  /\ S = [p \in 0..max_workers |-> S_built]
  /\ res = << >>
  /\ collected = << >>
  /\ stacks_list = Unset
  /\ arrays = Unset
  /\ f = [state |-> "none", header |-> FALSE, rows |-> << >>, tail |-> 0, name |-> << >>]
  /\ nc = << >>
  /\ evaluated = {}
  /\ order = << >>
  /\ ran = [w \in Workers |-> << >>]
  /\ at_start = Unset
  /\ call = Unset
  /\ \E r \in Spectra :
       disk = Put(<< >>, spectra_path(driver), spectrum_file(spectra_path(driver), r))
  /\ clock = 0
  /\ run = 1
  /\ parsed = Unset

NextLF ==
  \/ LoadSpectrum
  \/ ComputeField
  \/ SaveLF
  \/ Explore

SpecLF == InitLF /\ [][NextLF]_vars

\* the S4 sweep on one worker, over the flux ratios the solver may yield
Ratios == {x \in (-(One + One \div 4))..(One + One \div 4) : fl(x) = x}

InitRTA ==
  /\ driver = "S4"
  /\ \E n \in 1..MaxNwl : light = light_of("S4", n, 1)
  /\ struct = struct_of("S4")
  /\ opts = opts_of("S4")
  /\ mats = mats_of("S4")
  /\ max_workers = 1
  /\ sol \in [back_over_forw : Ratios, forw2_over_forw : Ratios]
  /\ pc = "map"
  /\ i_theta = 1
  /\ pools = 1
  /\ fut = [i \in Points |-> "pending"]
  /\ busy = [w \in Workers |-> 0]
  /\ S = [p \in 0..max_workers |-> S_built]
  /\ res = [i \in Points |-> None]
  /\ collected = << >>
  /\ stacks_list = Unset
  /\ arrays = Unset
  /\ f = [state |-> "none", header |-> FALSE, rows |-> << >>, tail |-> 0, name |-> << >>]
  /\ nc = << >>
  /\ evaluated = {}
  /\ order = << >>
  /\ ran = [w \in Workers |-> << >>]
  /\ at_start = << light, struct, opts >>
  /\ call = Unset
  /\ disk = << >>
  /\ clock = 0
  /\ run = 1
  /\ parsed = Unset

NextRTA ==
  \/ EvalRta
  \/ Collect
  \/ ExitWith
  \/ Save

SpecRTA == InitRTA /\ [][NextRTA]_vars

\* runs of one notebook against the wall clock: the struct as published, or
\* with a smaller disk; no evaluation fails
struct_variants(d) ==
  {struct_of(d),
   SetItem(SetItem(struct_of(d), "nd_radius", PyFloat(5000)), "nd_height", PyFloat(2550))}

InitRuns ==
  /\ driver \in Drivers \cup LFDrivers
  /\ light = IF driver \in LFDrivers THEN light_lf(driver) ELSE light_of(driver, 1, 1)
  /\ struct \in struct_variants(driver)
  /\ opts = opts_of(driver)
  /\ mats = mats_of(driver)
  /\ max_workers = 1
  /\ sol = [rc |-> <<1, 1, 0>>, lc |-> <<0, 1, 1>>]
  /\ pc = IF driver = "COMB" THEN "open"
          ELSE IF driver \in LFDrivers THEN "load" ELSE "loop"
  /\ i_theta = 1
  /\ pools = 0
  /\ fut = << >>
  /\ busy = [w \in Workers |-> 0]
  /\ S = [p \in 0..max_workers |-> S_built]
  /\ res = << >>
  /\ collected = << >>
  /\ stacks_list = Unset
  /\ arrays = Unset
  /\ f = [state |-> "none", header |-> FALSE, rows |-> << >>, tail |-> 0, name |-> << >>]
  /\ nc = << >>
  /\ evaluated = {}
  /\ order = << >>
  /\ ran = [w \in Workers |-> << >>]
  /\ at_start = Unset
  /\ call = Unset
  /\ disk = IF driver \in LFDrivers
            THEN Put(<< >>, spectra_path(driver),
                     spectrum_file(spectra_path(driver), << 1 >>))
            ELSE << >>
  /\ clock = 0
  /\ run = 1
  /\ parsed = Unset

NextRuns ==
  \/ Tick
  \/ Rerun
  \/ OpenFile
  \/ CreatePool
  \/ \E w \in Workers : Start(w)
  \/ \E w \in Workers : Finish(w)
  \/ Collect
  \/ ExitWith
  \/ Reduce
  \/ Save
  \/ ReduceWrite
  \/ Close
  \/ LoadSpectrum
  \/ ComputeField
  \/ SaveLF

SpecRuns == InitRuns /\ [][NextRuns]_vars

\* rta_spectra over lists of solved stacks of 2 to MaxLayers layers, for each
\* polarization: the EMUstack driver from its reduction cell on
Polarizations == {"TE", "TM", "R Circ", "L Circ"}

InitRS ==
  /\ driver = "EMU"
  /\ \E n \in 1..MaxNwl, pol \in Polarizations, L \in 2..MaxLayers :
       /\ light = SetItem(light_of("EMU", n, 1), "pol", PyStr(pol))
       /\ stacks_list = [i \in 1..n |->
                           [light |-> [wl |-> linspace(wl_min, wl_max, n)[i], theta |-> 0,
                                       phi |-> 0, max_order_PWs |-> 2],
                            layers |-> L]]
  /\ struct = struct_of("EMU")
  /\ opts = opts_of("EMU")
  /\ mats = mats_of("EMU")
  /\ max_workers = 1
  /\ sol \in [rc : {<<1, 1, 0>>, <<0, 1, 1>>}, lc : {<<0, 1, 1>>}]
  /\ pc = "reduce"
  /\ i_theta = 1
  /\ pools = 0
  /\ fut = [i \in DOMAIN stacks_list |-> "done"]
  /\ busy = [w \in Workers |-> 0]
  /\ S = [p \in 0..max_workers |-> S_built]
  /\ res = stacks_list
  /\ collected = stacks_list
  /\ arrays = Unset
  /\ f = [state |-> "none", header |-> FALSE, rows |-> << >>, tail |-> 0, name |-> << >>]
  /\ nc = << >>
  /\ evaluated = {<<1, i>> : i \in DOMAIN stacks_list}
  /\ order = [i \in DOMAIN stacks_list |-> i]
  /\ ran = [w \in Workers |-> order]
  /\ at_start = << light, struct, opts >>
  /\ call = Unset
  /\ disk = << >>
  /\ clock = 0
  /\ run = 1
  /\ parsed = Unset

NextRS ==
  \/ Reduce
  \/ Save

SpecRS == InitRS /\ [][NextRS]_vars

\* the four reductions of one angle of the combined sweep, in any order, on
\* the stack objects the pool returned
InitPol ==
  /\ driver = "COMB"
  /\ \E n \in 1..MaxNwl, L \in 2..MaxLayers :
       /\ light = light_of("COMB", n, 1)
       /\ stacks_list = [i \in 1..n |->
                           stack_object([wl |-> linspace(wl_min, wl_max, n)[i],
                                         theta |-> theta_min, phi |-> 0,
                                         max_order_PWs |-> 2], L)]
  /\ struct = struct_of("COMB")
  /\ opts = opts_of("COMB")
  /\ mats = mats_of("COMB")
  /\ max_workers = 1
  /\ sol \in [rc : {<<1, 1, 0>>, <<0, 1, 1>>}, lc : {<<0, 1, 1>>}]
  /\ pc = "reduce"
  /\ i_theta = 1
  /\ pools = 0
  /\ fut = [i \in DOMAIN stacks_list |-> "done"]
  /\ busy = [w \in Workers |-> 0]
  /\ S = [p \in 0..max_workers |-> S_built]
  /\ res = stacks_list
  /\ collected = stacks_list
  /\ arrays = << >>
  /\ f = [state |-> "open", header |-> TRUE, rows |-> << >>, tail |-> 0,
          name |-> path_of("COMB", strftime(0))]
  /\ nc = << >>
  /\ evaluated = {<<1, i>> : i \in DOMAIN stacks_list}
  /\ order = [i \in DOMAIN stacks_list |-> i]
  /\ ran = [w \in Workers |-> order]
  /\ at_start = << light, struct, opts >>
  /\ call = Unset
  /\ disk = Put(<< >>, f.name, [header |-> TRUE, rows |-> << >>, tail |-> 0])
  /\ clock = 0
  /\ run = 1
  /\ parsed = Unset

NextPol == \E pol \in Polarizations : ReducePol(pol)

SpecPol == InitPol /\ [][NextPol]_vars

\* the EMUstack near-field function called with any arguments, on the stack
\* solved at the wavelength of maximum reflectance
InitField == InitLF /\ driver = "EMULF"

NextField ==
  \/ LoadSpectrum
  \/ CallLf

SpecField == InitField /\ [][NextField]_vars

\* the S4 spectra driver with the substrate and the background of the
\* nanodisk layer as published (vacuum) or of the other material of the database
struct_materials(sub, back) ==
  SetItem(SetItem(SetItem(struct_of("S4"), "sub_mat", PyStr(sub)),
                  "nd_back_mat", PyStr(back)),
          "materials_stack", PyList(<< PyStr("e_vacuum"), PyStr("e_au"), PyStr(sub) >>))

InitMat ==
  /\ driver = "S4"
  /\ \E n \in 1..MaxNwl : light = light_of("S4", n, 1)
  /\ \E sub, back \in {"e_vacuum", "e_au"} : struct = struct_materials(sub, back)
  /\ opts = opts_of("S4")
  /\ mats = mats_of("S4")
  /\ max_workers \in 1..MaxWorkers
  /\ sol = [rc |-> <<1, 1, 0>>, lc |-> <<0, 1, 1>>]
  /\ pc = "loop"
  /\ i_theta = 1
  /\ pools = 0
  /\ fut = << >>
  /\ busy = [w \in Workers |-> 0]
  /\ S = [p \in 0..max_workers |-> S_built]
  /\ res = << >>
  /\ collected = << >>
  /\ stacks_list = Unset
  /\ arrays = Unset
  /\ f = [state |-> "none", header |-> FALSE, rows |-> << >>, tail |-> 0, name |-> << >>]
  /\ nc = << >>
  /\ evaluated = {}
  /\ order = << >>
  /\ ran = [w \in Workers |-> << >>]
  /\ at_start = Unset
  /\ call = Unset
  /\ disk = << >>
  /\ clock = 0
  /\ run = 1
  /\ parsed = Unset

NextMat ==
  \/ CreatePool
  \/ \E w \in Workers : Start(w)
  \/ \E w \in Workers : Finish(w)
  \/ Collect
  \/ ExitWith
  \/ Save

SpecMat == InitMat /\ [][NextMat]_vars

\* every notebook: the sweep drivers, the near-field notebooks and the
\* exploration of what they wrote
InitAll == Init \/ InitLF

NextAll ==
  \/ OpenFile
  \/ CreatePool
  \/ \E w \in Workers : Start(w)
  \/ \E w \in Workers : Finish(w)
  \/ \E w \in Workers : Fail(w)
  \/ Collect
  \/ Raise
  \/ ExitWith
  \/ Abort
  \/ Reduce
  \/ Save
  \/ Explore
  \/ ReduceWrite
  \/ Close
  \/ LoadSpectrum
  \/ ComputeField
  \/ SaveLF

SpecAll == InitAll /\ [][NextAll]_vars

\* ------------------------------------------------------------------------
\* helpers of the properties
Range(seq) == {seq[i] : i \in DOMAIN seq}
Running == {i \in DOMAIN fut : fut[i] = "running"}
AllSamples == (1..n_theta) \X Points
AnyFailed == \E i \in DOMAIN fut : fut[i] = "failed"
\* the permittivities and excitation rta sets for wavelength wl, on any handle
HandleFor(wl) ==
  [exc |-> "circ", freq |-> wl, Air |-> <<"e_vacuum", wl>>, Au |-> <<"e_au", wl>>]
\* what evaluating sweep point i of the current batch returns
ValueOfPoint(i) ==
  IF driver = "S4"
  THEN << <<"R", "circ", v_wl[i], <<"e_vacuum", v_wl[i]>>, <<"e_au", v_wl[i]>> >>,
          <<"T", "circ", v_wl[i], <<"e_vacuum", v_wl[i]>>, <<"e_au", v_wl[i]>> >>,
          <<"A", "circ", v_wl[i], <<"e_vacuum", v_wl[i]>>, <<"e_au", v_wl[i]>> >> >>
  ELSE [light |-> [wl |-> v_wl[i],
                   theta |-> IF driver = "COMB" THEN v_theta[i_theta] ELSE 0,
                   phi |-> 0, max_order_PWs |-> 2],
        layers |-> 3]
OutOfOrder == \E j, k \in DOMAIN order : j < k /\ order[j] > order[k]

\* C1: whatever the order in which the workers finish, element i of the
\* collected results is the evaluation of sweep point i, and the arrays
\* handed to the reduction and to the file stay aligned with v_wl
C1_ResultsInInputOrder ==
  /\ pc \in {"map", "unwind"} =>
       \A i \in DOMAIN collected : collected[i] = ValueOfPoint(i)
  /\ pc = "reduce" =>
       /\ Len(stacks_list) = n_wl
       /\ \A i \in Points : stacks_list[i] = ValueOfPoint(i)
  /\ (driver = "S4" /\ pc \in {"save", "done"}) =>
       \A i \in Points : \A q \in 1..3 :
          /\ arrays[q][i] = ValueOfPoint(i)[q]
          /\ nc # << >> => /\ nc[1].data[i][q] = ValueOfPoint(i)[q]
                           /\ nc[1].wavelength[i] = v_wl[i]
  /\ (driver = "EMU" /\ pc \in {"save", "done"}) =>
       \A i \in Points :
          LET sc == calc_scat(ValueOfPoint(i), "TM") IN
          /\ arrays[1][i] = sc.r_list[1]
          /\ arrays[2][i] = sc.t_list[2]
          /\ arrays[3][i] = sc.a_list[2]
          /\ nc # << >> => /\ nc[1].data[i] = << sc.r_list[1], sc.t_list[2], sc.a_list[2] >>
                           /\ nc[1].wavelength[i] = v_wl[i]

\* every point was evaluated, the second finished before the first, and the
\* list was still assembled
C1_Witness ==
  /\ pc \in {"reduce", "save"}
  /\ n_wl >= 3
  /\ OutOfOrder
  /\ order[1] # 1

\* C2: a completed run yields one sample per point of the sweep axes: n_wl
\* (R, T, A) triples for a wavelength sweep, n_wl * n_theta rows for the
\* combined sweep
C2_SampleCount ==
  pc = "done" =>
    IF driver = "COMB"
    THEN Len(f.rows) = n_wl * n_theta
    ELSE /\ \A q \in 1..3 : Len(arrays[q]) = n_wl
         /\ Len(nc) = 1
         /\ Len(nc[1].data) = n_wl
         /\ \A i \in Points : Len(nc[1].data[i]) = 3

C2_Witness ==
  /\ pc = "done"
  /\ driver = "COMB"
  /\ n_wl >= 2
  /\ n_theta >= 2
  /\ Len(f.rows) = n_wl * n_theta

\* C3: in the S4 sweep a worker sees, on the handle it evaluates with, what
\* it set itself for the point it is evaluating, the result of a point
\* depends only on its wavelength whichever worker evaluated it and whatever
\* that worker evaluated before, and the driver's handle is left as built
C3_WorkersIndependent ==
  driver = "S4" =>
    /\ \A w \in Workers : busy[w] # 0 =>
         /\ S[w].freq = v_wl[busy[w]]
         /\ S[w].exc = "circ"
    /\ \A i \in DOMAIN fut : fut[i] = "done" => res[i] = rta_fluxes(HandleFor(v_wl[i]))
    /\ S[0] = S_built

\* a worker is evaluating a point on a handle that still holds the materials
\* of the other wavelength it evaluated before, while another worker's handle
\* holds a different state
C3_Witness ==
  /\ driver = "S4"
  /\ \E w \in Workers :
       /\ Len(ran[w]) >= 2
       /\ busy[w] # 0
       /\ S[w].Au = <<"e_au", v_wl[ran[w][Len(ran[w]) - 1]]>>
       /\ S[w].Au # <<"e_au", v_wl[busy[w]]>>
       /\ \E u \in Workers : u # w /\ S[u] # S[w] /\ S[u] # S_built

\* C4 as stated: nothing is written to an output file before every sample of
\* the whole sweep has been evaluated
C4_Original ==
  (nc # << >> \/ f.rows # << >>) => AllSamples \subseteq evaluated

\* C4 amended: each pool batch is awaited as a whole; the spectra drivers
\* write nothing before the entire sweep is evaluated, and the combined sweep
\* writes the rows of an angle only once every sample of that angle (and of
\* every earlier angle) has been evaluated
C4_BatchAwaited ==
  /\ nc # << >> => (driver # "COMB" /\ AllSamples \subseteq evaluated)
  /\ \A k \in 1..n_theta :
       Len(f.rows) > (k - 1) * n_wl =>
         /\ Len(f.rows) >= k * n_wl
         /\ \A i \in Points : <<k, i>> \in evaluated
  /\ driver # "COMB" => f.rows = << >>

\* rows of the first angle are in the file while the second angle is still
\* being evaluated
C4_Witness ==
  /\ driver = "COMB"
  /\ pc = "map"
  /\ i_theta = 2
  /\ Len(f.rows) = n_wl
  /\ Running # {}
  /\ ~(AllSamples \subseteq evaluated)

\* C5: once the evaluation of a point has raised, the driver never gets past
\* the pool map: the batch is not delivered (no list, no arrays, no rows, no
\* file from it), no point is handed to a worker twice, and the run ends
\* aborted
C5_FailureAbortsBatch ==
  /\ AnyFailed =>
       /\ pc \in {"map", "unwind", "aborted"}
       /\ arrays = Unset
       /\ nc = << >>
       /\ Len(f.rows) = (i_theta - 1) * n_wl
       /\ (stacks_list # Unset => /\ driver = "COMB"
                                 /\ i_theta > 1
                                 /\ stacks_list[1].light.theta = v_theta[i_theta - 1])
  /\ pc \in {"unwind", "aborted"} => (AnyFailed /\ collected = << >>)
  /\ \A w, u \in Workers : \A j \in DOMAIN ran[w] : \A k \in DOMAIN ran[u] :
       (ran[w][j] = ran[u][k]) => (w = u /\ j = k)

\* a point raised after other points of the batch had returned: the run is
\* aborted and their results were dropped
C5_Witness ==
  /\ pc = "aborted"
  /\ \E i, j \in DOMAIN fut : fut[i] = "failed" /\ fut[j] = "done" /\ j < i
  /\ collected = << >>

\* C6: at most one pool exists, evaluations run only inside it, never more
\* of them than the pool has workers, and each worker runs one at a time
C6_BoundedParallelism ==
  /\ pools \in {0, 1}
  /\ Cardinality(Running) <= max_workers
  /\ Running # {} => pools = 1
  /\ Running = {busy[w] : w \in Workers} \ {0}
  /\ \A w, u \in Workers : (busy[w] # 0 /\ busy[w] = busy[u]) => w = u

\* every worker of the second angle's pool is busy and points are waiting
C6_Witness ==
  /\ driver = "COMB"
  /\ i_theta = 2
  /\ pools = 1
  /\ max_workers >= 2
  /\ Cardinality(Running) = max_workers
  /\ Pending # {}


\* the sample a row of the table belongs to, and its fields as numbers
RowWl(j) == ((j - 1) % n_wl) + 1
RowTheta(j) == ((j - 1) \div n_wl) + 1
RowStack(j) == simulate_stack(Light(v_wl[RowWl(j)], v_theta[RowTheta(j)]))
\* q = 1, 2, 3 for R, T, A
RcOf(j, q) == f.rows[j][12 + q].e5 \div 100000
LcOf(j, q) == f.rows[j][15 + q].e5 \div 100000
CdOf(j, q) == f.rows[j][9 + q]
SolverTriple(j, pol) ==
  LET sc == calc_scat(RowStack(j), pol) IN << sc.r_list[1], sc.t_list[2], sc.a_list[2] >>
\* x is num / den rounded to five decimal places
IsQuotient(x, num, den) ==
  /\ x.txt = "fin"
  /\ 2 * Abs(x.e5 * den - num * 100000) <= Abs(den)
IsRatioOfSample(j, q) ==
  /\ f.rows[j][12 + q] = Text(100000 * SolverTriple(j, "R Circ")[q])
  /\ f.rows[j][15 + q] = Text(100000 * SolverTriple(j, "L Circ")[q])
  /\ LcOf(j, q) + RcOf(j, q) # 0 =>
       IsQuotient(CdOf(j, q), LcOf(j, q) - RcOf(j, q), LcOf(j, q) + RcOf(j, q))

\* C7 as stated: each CD value is (L - R) / (L + R) of the left- and right-
\* circular results of its own sample, and is zero whenever L = R
C7_Original ==
  \A j \in DOMAIN f.rows : \A q \in 1..3 :
    /\ IsRatioOfSample(j, q)
    /\ LcOf(j, q) = RcOf(j, q) => CdOf(j, q) = Text(0)

\* C7 amended: each CD value is (L - R) / (L + R) of the left- and right-
\* circular results of its own sample, and is zero whenever L = R # 0
C7_CircularDichroism ==
  \A j \in DOMAIN f.rows : \A q \in 1..3 :
    /\ IsRatioOfSample(j, q)
    /\ (LcOf(j, q) = RcOf(j, q) /\ LcOf(j, q) # 0) => CdOf(j, q) = Text(0)

\* a row holding a zero ratio of identical nonzero inputs beside a nonzero
\* ratio of different inputs
C7_Witness ==
  \E j \in DOMAIN f.rows : \E q, p \in 1..3 :
    /\ LcOf(j, q) = RcOf(j, q) /\ LcOf(j, q) # 0 /\ CdOf(j, q) = Text(0)
    /\ LcOf(j, p) # RcOf(j, p) /\ LcOf(j, p) + RcOf(j, p) # 0
    /\ CdOf(j, p).txt = "fin" /\ CdOf(j, p).e5 # 0

\* C8: when the left- and right-circular results of a sample sum to zero the
\* ratio written for it is no finite number (nan or inf)
C8_ZeroSumNotFinite ==
  \A j \in DOMAIN f.rows : \A q \in 1..3 :
    LcOf(j, q) + RcOf(j, q) = 0 => CdOf(j, q).txt \in {"nan", "inf"}

\* a row with a zero sum of two zeros (nan) and one of opposite values (inf)
C8_Witness ==
  \E j \in DOMAIN f.rows : \E q, p \in 1..3 :
    /\ LcOf(j, q) = 0 /\ RcOf(j, q) = 0 /\ CdOf(j, q).txt = "nan"
    /\ LcOf(j, p) # 0 /\ LcOf(j, p) + RcOf(j, p) = 0 /\ CdOf(j, p).txt = "inf"

\* every float of the value is a finite number
RECURSIVE AllFinite(_)
AllFinite(v) ==
  IF v.t = "float" THEN "c" \in DOMAIN v
  ELSE IF v.t = "list" THEN \A i \in DOMAIN v.items : AllFinite(v.items[i])
  ELSE IF v.t = "dict" THEN \A i \in DOMAIN v.items : AllFinite(v.items[i][2])
  ELSE TRUE

\* C9 as stated: str() followed by literal-structure parsing gives back a
\* mapping equal to the dictionary, for every dictionary of primitives
C9_Original ==
  parsed # Unset => parsed[1][2] = light

\* C9 amended: the same, for every dictionary of primitives whose floats are
\* finite
C9_RoundTrip ==
  (parsed # Unset /\ AllFinite(light)) => parsed[1][2] = light

\* a dictionary with a negative float, and a list of two elements, came back
C9_Witness ==
  /\ parsed # Unset
  /\ AllFinite(light)
  /\ Len(light.items) = 2
  /\ light.items[1][2].t = "list"
  /\ Len(light.items[1][2].items) = 2
  /\ light.items[1][2].items[1] = PyFloat(-150)
  /\ light.items[2][2] = PyBool(TRUE)
  /\ parsed[1][2] = light

\* the dictionary a run used, by the name of the attribute that records it
UsedDict(name) ==
  IF name = "light" THEN light
  ELSE IF name = "struct" THEN struct
  ELSE IF name = "mats" THEN mats
  ELSE opts

\* C10: every configuration attribute attached to a result file (light,
\* struct, the solver options, mats) parses back into a mapping equal to the
\* dictionary the run used
C10_SelfDescribing ==
  parsed # Unset =>
    \A i \in DOMAIN parsed : parsed[i][2] = UsedDict(parsed[i][1])

\* C11: in every solver invocation of a sweep the incidence angles, the
\* polarization and the number of expansion orders handed to the solver are
\* the values of the light dictionary that is written into the file
C11_RecordedConfigUsed ==
  /\ driver = "S4" =>
       \A w \in Workers : busy[w] # 0 =>
         /\ S[HandleOf(w)].angles = << Get(light, "theta"), Get(light, "phi") >>
         /\ S[HandleOf(w)].NumBasis = Get(light, "NumBasis")
         /\ S[HandleOf(w)].amps = Get(light, "pol").items
  /\ driver = "EMU" =>
       /\ \A i \in DOMAIN fut : fut[i] = "done" =>
            /\ res[i].light.theta * 100 = Get(light, "theta").c
            /\ res[i].light.phi * 100 = Get(light, "phi").c
            /\ res[i].light.max_order_PWs = Get(light, "max_order_PWs").n
       /\ pc \in {"save", "done"} =>
            arrays = rta_spectra(stacks_list, Get(light, "pol").s)

\* the text stored under an attribute name of the first file written
AttrText(name) ==
  LET i == CHOOSE i \in DOMAIN nc[1].attrs : nc[1].attrs[i][1] = name
  IN nc[1].attrs[i][2]

\* C12: from the creation of a sweep's pool on, light, struct and the solver
\* options stay as they were at that moment, and the attributes written are
\* the text of the dictionaries as they were then
C12_DictsNotModified ==
  at_start # Unset =>
    /\ << light, struct, opts >> = at_start
    /\ (nc # << >> /\ Len(nc[1].attrs) >= 3) =>
         /\ AttrText("light") = py_str(at_start[1])
         /\ AttrText("struct") = py_str(at_start[2])
         /\ AttrText(IF driver = "S4" THEN "s4" ELSE "emu") = py_str(at_start[3])

\* a sweep of several points ran on several workers and its file is written
C12_Witness ==
  /\ at_start # Unset
  /\ pc = "done"
  /\ nc # << >>
  /\ n_wl >= 2
  /\ \A w \in Workers : ran[w] # << >>
  /\ max_workers >= 2
  /\ AttrText("light") = py_str(at_start[1])

\* a spectra or near-field run, as opposed to the combined sweep
WritesArray == driver \in {"S4", "EMU"} \cup LFDrivers

\* C13: a spectra or near-field run hands its array to its file once, at its
\* save step, and leaves the array alone afterwards; no file of the directory
\* is ever removed, and none is changed by loading it in a near-field notebook
\* or by the exploration of a finished run
C13_WrittenOnceReadOnly ==
  /\ [](WritesArray =>
          /\ Len(nc) <= 1
          /\ pc = "done" => (Len(nc) = 1 /\ disk[nc[1].name] = nc[1]))
  /\ [][WritesArray =>
          /\ nc' # nc => (pc = "save" /\ nc = << >> /\ nc'[1].data =
                            (IF driver \in LFDrivers THEN arrays ELSE column_stack(arrays)))
          /\ pc \in {"save", "done"} => arrays' = arrays
          /\ \A q \in DOMAIN disk : q \in DOMAIN disk'
          /\ disk' # disk => (pc = "save" /\ DOMAIN disk' = DOMAIN disk \cup {nc'[1].name}
                             /\ \A q \in DOMAIN disk : q # nc'[1].name => disk'[q] = disk[q])
          /\ pc \in {"load", "done"} => disk' = disk]_vars

\* a near-field run loaded a spectra file, wrote its own file beside it, and
\* the exploration has read what it wrote
C13_Witness ==
  /\ driver \in LFDrivers
  /\ pc = "done"
  /\ parsed # Unset
  /\ Len(nc) = 1
  /\ Cardinality(DOMAIN disk) = 2
  /\ spectra_path(driver) \in DOMAIN disk
  /\ disk[nc[1].name] = nc[1]

\* the triples rta has returned so far
Returned == {res[i] : i \in {j \in DOMAIN fut : fut[j] = "done"}}
\* one unit in the last place of 1.0
UlpOfOne == One \div 2 ^ (Precision - 1)

\* C14 as stated: every triple rta returns has R >= 0, T >= 0 and
\* R + T + A = 1, and a sweep of n points returns n triples
C14_Original ==
  /\ \A t \in Returned :
       /\ t[1] >= 0 /\ t[2] >= 0
       /\ t[1] + t[2] + t[3] = One
       /\ fadd(fadd(t[1], t[2]), t[3]) = One
  /\ pc \in {"save", "done"} => (Len(collected) = n_wl /\ Len(arrays[1]) = n_wl)

\* C14 amended: every triple rta returns has R >= 0, T >= 0 and R + T + A
\* within one unit in the last place of 1, both as a real sum and as float64
\* adds it; a sweep of n points returns n triples
C14_SumsToOne ==
  /\ \A t \in Returned :
       /\ t[1] >= 0 /\ t[2] >= 0
       /\ Abs(t[1] + t[2] + t[3] - One) <= UlpOfOne
       /\ Abs(fadd(fadd(t[1], t[2]), t[3]) - One) <= UlpOfOne
  /\ pc \in {"save", "done"} => (Len(collected) = n_wl /\ Len(arrays[1]) = n_wl)

\* a 3-point sweep returned 3 triples whose R + T + A is not 1, from
\* ratios of which one was negative
C14_Witness ==
  /\ pc = "done"
  /\ n_wl = 3
  /\ Len(collected) = 3
  /\ Len(nc[1].data) = 3
  /\ sol.back_over_forw < 0
  /\ \A i \in 1..3 : /\ collected[i][1] = -sol.back_over_forw
                     /\ collected[i][1] + collected[i][2] + collected[i][3] # One

\* --------------------------------------------------------------------- C15
\* a path without its directory
Base(p) == IF p[1] = StrTok("data/") THEN SubSeq(p, 2, Len(p)) ELSE p

\* the step creates an output file: open(..., 'w') or to_netcdf(...)
Creates == pc \in {"open", "save"} /\ pc' # pc

\* the path of the file the step creates
Created == IF driver = "COMB" THEN f'.name ELSE nc'[Len(nc')].name

\* DDMMYY_HHMMSS of the wall clock at half second t
StampAt(t) ==
  LET sec == session_start + t \div 2
  IN [tok |-> "stamp", d |-> 18, m |-> 2, y |-> 22,
      H |-> sec \div 3600, M |-> (sec \div 60) % 60, S |-> sec % 60]

\* C15: every output file is created under the name
\* <engine>_<sweepKind>_<shape>_px<period_x>_py<period_y>_r<radius>_h<height>_<DDMMYY_HHMMSS>.<ext>,
\* with the shape, periods, radius and height of the struct dictionary of the
\* run and the wall-clock time of the moment the file is created
C15_FileNameFormat ==
  [][Creates =>
       /\ Created \in DOMAIN disk'
       /\ Base(Created) =
            << StrTok(IF driver \in {"S4", "S4LF"} THEN "S4" ELSE "EMU"), StrTok("_"),
               StrTok(IF driver \in LFDrivers THEN "AuNdArrayLF" ELSE "AuNdArraySpectra"),
               StrTok("_"), StrTok(Get(struct, "inc_shape").s), StrTok("_px") >>
            \o py_str(Get(struct, "nd_period_x")) \o << StrTok("_py") >>
            \o py_str(Get(struct, "nd_period_y")) \o << StrTok("_r") >>
            \o py_str(Get(struct, "nd_radius")) \o << StrTok("_h") >>
            \o py_str(Get(struct, "nd_height"))
            \o << StrTok("_"), StampAt(clock),
                  StrTok(IF driver = "COMB" THEN ".out" ELSE ".nc") >>]_vars

\* a second run of a notebook with the smaller disk has created its file
\* after the minute turned over
C15_Witness ==
  /\ run = 2
  /\ pc = "done"
  /\ Get(struct, "nd_radius") = PyFloat(5000)
  /\ \E p \in DOMAIN disk : p[Len(p) - 1].M = 59 /\ p[Len(p) - 1].S = 0

\* --------------------------------------------------------------------- C16
\* the timestamp in a file name
StampOf(p) == p[Len(p) - 1]

\* the last array written under the name of the i-th one
LastAs(i) ==
  CHOOSE k \in DOMAIN nc :
    /\ nc[k].name = nc[i].name
    /\ \A j \in DOMAIN nc : nc[j].name = nc[i].name => j <= k

\* C16: two runs of one notebook with the same struct write to the same file
\* name exactly when their timestamps show the same second; the later write
\* then succeeds and its content replaces the earlier file, whatever the
\* illumination and options of the two runs; the text table of a run holds
\* the rows of that run only
C16_SameSecondReplaces ==
  /\ \A i, j \in DOMAIN nc :
       (nc[i].name = nc[j].name) <=> (StampOf(nc[i].name) = StampOf(nc[j].name))
  /\ \A i \in DOMAIN nc :
       /\ nc[i].name \in DOMAIN disk
       /\ disk[nc[i].name] = nc[LastAs(i)]
  /\ pc = "done" => Len(nc) = (IF driver = "COMB" THEN 0 ELSE run)
  /\ driver = "COMB" /\ f.state # "none" =>
       /\ f.name \in DOMAIN disk
       /\ disk[f.name] = [header |-> f.header, rows |-> f.rows, tail |-> f.tail]

\* two runs that differ in their light or options wrote within one second:
\* one file is left, with the attributes of the second run
C16_Witness ==
  /\ Len(nc) = 2
  /\ nc[1].name = nc[2].name
  /\ nc[1].attrs # nc[2].attrs
  /\ clock = 1
  /\ disk[nc[1].name].attrs = nc[2].attrs

\* --------------------------------------------------------------------- C17
\* C17: the text table is the commented header followed by exactly one row
\* per (wavelength, angle) sample, and every row has exactly one field for
\* each column named in the column line of the header, in that order:
\* lambda, theta, then R, T, A for TE, TM, CD, right and left circular
C17_RowsMatchHeader ==
  driver = "COMB" /\ pc = "done" =>
    /\ f.header
    /\ Len(f.rows) = n_wl * n_theta
    /\ \A j \in DOMAIN f.rows :
         /\ Len(f.rows[j]) = Len(header_columns)
         /\ f.rows[j][1] = fmt_f5(Rat(v_wl[RowWl(j)], 1))
         /\ f.rows[j][2] = fmt_f5(Rat(v_theta[RowTheta(j)], 1))
         /\ \A q \in 1..3 :
              /\ f.rows[j][2 + q] = fmt_f5(Rat(SolverTriple(j, "TE")[q], 1))
              /\ f.rows[j][5 + q] = fmt_f5(Rat(SolverTriple(j, "TM")[q], 1))

\* --------------------------------------------------------------------- C18
\* x.sel(wavelength=wl, spectrum=kind).item()
Sel(x, wl, kind) ==
  x.data[CHOOSE i \in DOMAIN x.wavelength : x.wavelength[i] = wl]
        [CHOOSE q \in DOMAIN x.spectrum : x.spectrum[q] = kind]

\* the reflectance, transmittance and absorption returned for sweep point i:
\* the triple rta returned, or those of the stack simulate_stack returned
ReturnedRTA(i) ==
  IF driver = "S4" THEN res[i]
  ELSE LET sc == calc_scat(res[i], Get(light, "pol").s)
       IN << sc.r_list[1], sc.t_list[2], sc.a_list[2] >>

\* C18: the persisted spectrum has dims (wavelength, spectrum), shape
\* (n_wl, 3) and spectrum coordinates R, T, A in that order, and its entries
\* at wavelength v_wl[i] and spectrum R, T, A are the reflectance,
\* transmittance and absorption returned for sweep point i
C18_PersistedSpectrum ==
  \A k \in DOMAIN nc :
    /\ nc[k].name \in DOMAIN disk
    /\ LET x == disk[nc[k].name] IN
         /\ x.dims = <<"wavelength", "spectrum">>
         /\ Len(x.data) = n_wl
         /\ \A i \in DOMAIN x.data : Len(x.data[i]) = 3
         /\ x.spectrum = <<"R", "T", "A">>
         /\ x.wavelength = v_wl
         /\ \A i \in Points :
              /\ Sel(x, v_wl[i], "R") = ReturnedRTA(i)[1]
              /\ Sel(x, v_wl[i], "T") = ReturnedRTA(i)[2]
              /\ Sel(x, v_wl[i], "A") = ReturnedRTA(i)[3]

\* an EMUstack spectrum of several wavelengths is on disk, its rows differ
C18_Witness ==
  /\ driver = "EMU"
  /\ n_wl >= 2
  /\ Len(nc) = 1
  /\ nc[1].name \in DOMAIN disk
  /\ disk[nc[1].name].data[1] # disk[nc[1].name].data[n_wl]

\* --------------------------------------------------------------------- C19
\* the attribute key of the engine a notebook runs
EngineKey == IF driver \in {"S4", "S4LF"} THEN "s4" ELSE "emu"

\* the attributes of an array that hold a configuration dictionary
ConfigAttrs(x) ==
  {x.attrs[i] : i \in {j \in DOMAIN x.attrs :
                           x.attrs[j][1] \in {"light", "struct", "s4", "emu"}}}

\* C19: every persisted array carries exactly three configuration
\* attributes, each a string: the illumination dictionary under 'light', the
\* geometry dictionary under 'struct' and the solver options under the key of
\* the engine that produced the file, 's4' for S4 and 'emu' for EMUstack
C19_ThreeConfigAttributes ==
  \A k \in DOMAIN nc :
    /\ nc[k].name \in DOMAIN disk
    /\ ConfigAttrs(disk[nc[k].name]) =
         {<<"light", py_str(light)>>, <<"struct", py_str(struct)>>,
          <<EngineKey, py_str(opts)>>}

\* --------------------------------------------------------------------- C20
\* the spectrum a near-field notebook loads, and its reflectances
Loaded == disk[spectra_path(driver)]
LoadedR == [i \in DOMAIN Loaded.data |-> Sel(Loaded, Loaded.wavelength[i], "R")]

\* C20: the wavelength a near-field notebook computes the field at is a
\* wavelength coordinate of the loaded spectrum whose R is not below the R at
\* any other wavelength, the first such one on ties, and the light dictionary
\* serialized into the near-field file holds it under 'wl'
C20_MaxReflectanceWavelength ==
  /\ (driver \in LFDrivers /\ pc \in {"field", "save", "done"}) =>
       \E i \in DOMAIN Loaded.wavelength :
         /\ Get(light, "wl") = PyFloat(Loaded.wavelength[i] * 100)
         /\ \A j \in DOMAIN LoadedR : LoadedR[j] <= LoadedR[i]
         /\ \A j \in DOMAIN LoadedR : j < i => LoadedR[j] < LoadedR[i]
  /\ (driver \in LFDrivers /\ pc \in {"save", "done"}) =>
       arrays.z = Get(struct, "nd_height").c \div 2
       /\ (IF driver = "S4LF" THEN arrays.handle.freq
           ELSE arrays.stack.light.wl) = Get(light, "wl").c \div 100
  /\ driver \in LFDrivers =>
       \A k \in DOMAIN nc : \E a \in Range(disk[nc[k].name].attrs) :
         /\ a[1] = "light"
         /\ Lookup(literal_eval(a[2]), "wl") = Get(light, "wl")

\* the reflectance has its maximum at the first and at a later wavelength;
\* the field was computed and saved at the first
C20_Witness ==
  /\ driver \in LFDrivers
  /\ pc = "done"
  /\ Len(nc) = 1
  /\ Len(LoadedR) >= 3
  /\ LoadedR[1] = LoadedR[3]
  /\ LoadedR[2] < LoadedR[1]
  /\ Get(light, "wl") = PyFloat(Loaded.wavelength[1] * 100)

\* --------------------------------------------------------------------- C21
\* what calc_scat leaves in stack i of the list for the polarization of the run
ScatOf(i) == calc_scat(stacks_list[i], Get(light, "pol").s)

\* C21: for stacks whose a_list and t_list have L - 1 entries each (L the
\* layers of the first stack) and whose r_list has one, rta_spectra returns
\* three arrays as long as the list of stacks, whose i-th elements are the
\* r_list entry, the last t_list entry and the last a_list entry of stack i
C21_OwnStackEntries ==
  (driver = "EMU" /\ pc \in {"save", "done"}) =>
    LET L == stacks_list[1].layers IN
    /\ \A i \in DOMAIN stacks_list :
         /\ Len(ScatOf(i).a_list) = L - 1
         /\ Len(ScatOf(i).t_list) = L - 1
         /\ Len(ScatOf(i).r_list) = 1
    /\ \A q \in 1..3 : Len(arrays[q]) = Len(stacks_list)
    /\ \A i \in DOMAIN stacks_list :
         /\ arrays[1][i] = ScatOf(i).r_list[1]
         /\ arrays[2][i] = ScatOf(i).t_list[L - 1]
         /\ arrays[3][i] = ScatOf(i).a_list[L - 1]

\* several stacks of more than three layers were reduced for a circular
\* polarization
C21_Witness ==
  /\ pc = "save"
  /\ driver = "EMU"
  /\ Len(stacks_list) >= 2
  /\ stacks_list[1].layers >= 4
  /\ Get(light, "pol") = PyStr("R Circ")
  /\ arrays[2][1] # arrays[2][2]

\* --------------------------------------------------------------------- C22
\* the step hands a queued evaluation to a worker
StartsEvaluation == \E i \in DOMAIN fut : fut[i] = "pending" /\ fut'[i] = "running"

\* C22: the combined sweep takes the angles one after another: a pool is
\* created for each angle while none is alive, an evaluation of an angle
\* starts only when every evaluation of the angles before it has finished and
\* their rows are in the file, and row i_theta * n_wl + i_wl of the file
\* (counted from 0) is the row of angle i_theta and wavelength i_wl
C22_AnglesInSequence ==
  /\ [](driver = "COMB" =>
          /\ pools <= 1
          /\ evaluated \subseteq (1..i_theta) \X Points
          /\ \A k \in 1..(i_theta - 1) : \A i \in Points : <<k, i>> \in evaluated
          /\ pc \in {"loop", "map", "unwind", "reduce", "aborted"} =>
                Len(f.rows) = (i_theta - 1) * n_wl
          /\ \A i_th \in 0..(n_theta - 1) : \A i_wl \in 0..(n_wl - 1) :
                i_th * n_wl + i_wl + 1 \in DOMAIN f.rows =>
                  /\ f.rows[i_th * n_wl + i_wl + 1][1] = fmt_f5(Rat(v_wl[i_wl + 1], 1))
                  /\ f.rows[i_th * n_wl + i_wl + 1][2] = fmt_f5(Rat(v_theta[i_th + 1], 1)))
  /\ [][driver = "COMB" =>
          /\ (pc = "loop" /\ pc' = "map") => pools = 0 /\ pools' = 1
          /\ StartsEvaluation =>
                /\ pools = 1
                /\ Len(f.rows) = (i_theta - 1) * n_wl
                /\ \A k \in 1..(i_theta - 1) : \A i \in Points : <<k, i>> \in evaluated
          /\ i_theta' # i_theta =>
                /\ i_theta' = i_theta + 1
                /\ pools = 0
                /\ \A i \in Points : fut[i] = "done"
                /\ Len(f'.rows) = i_theta * n_wl]_vars

\* the second angle is being evaluated by two workers at once, the rows of
\* the first angle are in the file
C22_Witness ==
  /\ driver = "COMB"
  /\ i_theta = 2
  /\ pc = "map"
  /\ n_wl >= 2
  /\ Cardinality(Running) = 2
  /\ Len(f.rows) = n_wl

\* --------------------------------------------------------------------- C23
\* the values of polarization pol of each stack: its r_list entry and the
\* last entries of its t_list and a_list
OwnValues(pol) ==
  LET sc(i) == calc_scat(stacks_list[i], pol)
      last == stacks_list[1].layers - 1
  IN << [i \in DOMAIN stacks_list |-> sc(i).r_list[1]],
        [i \in DOMAIN stacks_list |-> sc(i).t_list[last]],
        [i \in DOMAIN stacks_list |-> sc(i).a_list[last]] >>

\* C23: with calc_scat replacing the lists of a stack, each of the four
\* reductions on the same stacks returns the values of its own polarization
\* in whatever order the four are called, and a later call leaves the arrays
\* returned by an earlier one as they were
C23_ReductionsIndependent ==
  /\ [](\A k \in DOMAIN arrays : arrays[k][2] = OwnValues(arrays[k][1]))
  /\ [][\A k \in DOMAIN arrays : arrays'[k] = arrays[k]]_vars

\* the four reductions were called with L Circ first and TE last, on several
\* stacks of more than two layers
C23_Witness ==
  /\ driver = "COMB"
  /\ pc = "reduce"
  /\ Len(arrays) = 4
  /\ arrays[1][1] = "L Circ"
  /\ arrays[4][1] = "TE"
  /\ arrays[1][2] # arrays[4][2]
  /\ Len(stacks_list) >= 2
  /\ stacks_list[1].layers >= 3
  /\ Len(stacks_list[1].t_list) = stacks_list[1].layers - 1

\* --------------------------------------------------------------------- C24
\* the run is over: its last cell returned, or an exception ended it
RunOver == pc \in {"done", "aborted"}

\* C24: a failed run leaves no output behind: once a run is over, an output
\* file is on disk only if every sample of the sweep was evaluated, so a run
\* in which a worker raised has created no file, whole or partial
C24_NoOutputOnFailure ==
  RunOver =>
    /\ pc = "aborted" => DOMAIN disk = {}
    /\ DOMAIN disk # {} => evaluated = AllSamples /\ ~AnyFailed

\* --------------------------------------------------------------------- C25
\* the closing newline is written and the file closed, once, after the rows
\* of the last angle
ClosedOnceAtEnd ==
  [][f'.tail # f.tail =>
       /\ f.tail = 0
       /\ f'.tail = 1
       /\ f.state = "open"
       /\ f'.state = "closed"
       /\ Len(f.rows) = n_theta * n_wl]_vars

\* C25: every run of the combined sweep that opens the text file eventually
\* closes it, also when a worker evaluation raises: a run that is over, and
\* takes no further step, has closed the file it opened; the closing newline
\* and the close happen exactly once, after the rows of the last angle
C25_EventuallyClosed ==
  /\ []((RunOver /\ f.state # "none") => f.state = "closed")
  /\ ClosedOnceAtEnd

\* --------------------------------------------------------------------- C26
\* C26: the EMUstack near-field function honours its arguments: the map
\* returned by lf(stack, pol, z, n_points, lay_interest) has shape
\* n_points x n_points and is evaluated in layer lay_interest, at height z,
\* for polarization pol
C26_LfHonoursArguments ==
  (driver = "EMULF" /\ call # Unset /\ pc = "save") =>
    /\ Shape(arrays) = << call.n_points, call.n_points >>
    /\ arrays.lay_interest = call.lay_interest
    /\ arrays.z = call.z
    /\ arrays.pol = call.pol
    /\ arrays.scat = calc_scat(arrays.stack, call.pol)

\* --------------------------------------------------------------------- C27
\* the corners of an n x n grid and their neighbours, counted from 0
GridSample(n) == {0, 1, n - 2, n - 1} \cap (0..(n - 1))

\* C27: element [j, i] of a near-field map is the field magnitude at the
\* i-th x sample and the j-th y sample of the grid, as the dims (y, x) of the
\* persisted array say, and the shape of the map is that of the coordinates
\* it is saved with, (len(v_coords_y), len(v_coords_x)) = (500, 500)
C27_MapIndexedYX ==
  /\ (driver \in LFDrivers /\ pc \in {"save", "done"}) =>
       /\ Shape(arrays) = << 500, 500 >>
       /\ \A j, i \in GridSample(500) : Item(arrays, j, i) = [ix |-> i, iy |-> j]
  /\ driver \in LFDrivers =>
       \A k \in DOMAIN nc :
         /\ nc[k].dims = <<"y", "x">>
         /\ Shape(nc[k].data) = << nc[k].y[3], nc[k].x[3] >>
         /\ nc[k].data = arrays

\* the S4 near-field map is saved; its element [1, 0] is the sample at the
\* first x and the second y
C27_Witness ==
  /\ driver = "S4LF"
  /\ pc = "done"
  /\ Len(nc) = 1
  /\ Shape(nc[1].data) = << 500, 500 >>
  /\ Item(nc[1].data, 1, 0) = [ix |-> 0, iy |-> 1]
  /\ Item(nc[1].data, 1, 0) # Item(nc[1].data, 0, 1)

\* --------------------------------------------------------------------- C28
\* the permittivity a region of the stack had, and the frequency set, when
\* the power fluxes of sweep point i were read
UsedBy(i, region) == res[i][1][IF region_material[region] = "Air" THEN 4 ELSE 5]
FrequencyAt(i) == res[i][1][3]

\* the permittivity the database holds at sweep point i for the material
\* struct names under key
Named(i, key) == << Get(struct, key).s, v_wl[i] >>

\* C28: in the S4 driver every material identifier of struct governs the
\* region it names: in every evaluation the superstrate, the background of
\* the nanodisk layer, the inclusion and the substrate have the permittivity
\* of struct['sup_mat'], struct['nd_back_mat'], struct['nd_inc_mat'] and
\* struct['sub_mat'] at the evaluated wavelength, and frequency and materials
\* are set to that wavelength before the power fluxes are read
C28_MaterialsGovernRegions ==
  driver = "S4" =>
    \A i \in DOMAIN fut : fut[i] = "done" =>
      /\ FrequencyAt(i) = v_wl[i]
      /\ UsedBy(i, "superstrate") = Named(i, "sup_mat")
      /\ UsedBy(i, "background") = Named(i, "nd_back_mat")
      /\ UsedBy(i, "inclusion") = Named(i, "nd_inc_mat")
      /\ UsedBy(i, "substrate") = Named(i, "sub_mat")

====
